---- MODULE Spec2Model ----
(***************************************************************************)
(* Capability-scenario worksheet engine of the dashboard service:          *)
(* DashboardTreeRenderer / DashboardMetrics / DashboardScenarios /         *)
(* ScenarioManager / DraftManager, run on the browser's single-threaded    *)
(* event loop.  Every handler is cut at its awaits: the action that starts *)
(* a handler runs it up to its first await and leaves a task holding the   *)
(* request in flight; the action that delivers the response runs the       *)
(* handler on to its next await or to its end.                             *)
(***************************************************************************)
EXTENDS Integers, FiniteSets, Sequences, TLC

\* ---- bounds of the model ------------------------------------------------
MaxOps == 3
MaxTasks == 2
MaxScenarios == 2

\* ---- reference data (GET /api/capability-tree) ---------------------------
\* Two capabilities sharing control c2, and one capability without controls.
Tree == [A |-> {"c1", "c2"}, B |-> {"c2"}, C |-> {}]
Caps == DOMAIN Tree
Ctrls == UNION {Tree[c] : c \in Caps}
InvalidCap == "invalid"

ScenarioIds == 1..MaxScenarios
NoId == 0
NoUser == "null"
AuthUser == "2"
DefaultDraftUser == "1"
DraftKeys == {DefaultDraftUser, AuthUser}

NoDraft == [present |-> FALSE, activeCapabilityIds |-> {}, activeControlIds |-> {}]
NoSelections == [sel_ids |-> {}, sel_active |-> {}, ctl_ids |-> {}, ctl_active |-> {}]
NoScenario == [state |-> "free", is_default |-> FALSE, data |-> NoSelections]
NoReq == [capability_ids |-> {}, has_control_ids |-> FALSE, control_ids |-> {},
          body |-> NoSelections]
Idle == [op |-> "idle", pc |-> "idle", sid |-> NoId, ret |-> "none", first |-> FALSE,
         req |-> NoReq]

\* A scenario stored before granular control tracking existed: capability
\* selections only, no control_selections.
LegacyScenario(dflt) ==
    [state |-> "live", is_default |-> dflt,
     data |-> [sel_ids |-> Caps, sel_active |-> {"A", "B"}, ctl_ids |-> {}, ctl_active |-> {}]]

VARIABLES
    treeData,            \* "unset" | "loaded"
    treeGroup,           \* TRUE once setupSVG has set this.svg and this.treeGroup
    activeCapabilities,  \* Set of capability_id
    activeControls,      \* Set of control_id
    userId,              \* DashboardScenarios.userId
    scenarioManager,     \* TRUE once a ScenarioManager has been constructed
    smCurrentScenarioId, \* ScenarioManager.currentScenarioId (NoId = null)
    currentScenarioId,   \* DashboardScenarios.currentScenarioId (NoId = null)
    scenariosInitialized,
    draftUserId,         \* DraftManager.userId
    localStorage,        \* draft user key -> stored draft
    autoSaveTimer,       \* "null" | "pending" | "fired": the timer the handle names
    staleTimers,         \* pending timers the handle no longer names
    statusType,          \* type of the last StatusMessageManager.show
    statusText,          \* its message, a string as the sequence of its fragments
    saveStatus,          \* last SaveStatusManager.update
    server,              \* scenario_id -> scenario stored by the data service
    previousMetrics,     \* DashboardMetrics.previousMetrics
    metricSignals,       \* colour of the change shown on each metric card ("none": no change shown)
    tasks,               \* slot -> handler suspended at an await
    ops                  \* number of handlers started so far

vars == <<treeData, treeGroup, activeCapabilities, activeControls, userId, scenarioManager,
          smCurrentScenarioId, currentScenarioId, scenariosInitialized, draftUserId,
          localStorage, autoSaveTimer, staleTimers, statusType, statusText, saveStatus,
          server,
          previousMetrics, metricSignals, tasks, ops>>

selVars == <<activeCapabilities, activeControls>>
bindVars == <<userId, scenarioManager, smCurrentScenarioId, currentScenarioId, draftUserId>>
timerVars == <<autoSaveTimer, staleTimers>>
uiVars == <<statusType, saveStatus>>
metricVars == <<previousMetrics, metricSignals>>

\* Where the messages of a specification are not told apart by their wording, the
\* text of a message is the one fragment naming its type.
NoText == <<>>
TypeText(type) == IF type = "none" THEN NoText ELSE <<type>>
TextFollowsType == statusText' = TypeText(statusType')

\* ---- pure helpers ---------------------------------------------------------
ControlsOf(capSet) == UNION {Tree[c] : c \in capSet \cap Caps}

\* A payload that always carries control_ids
AnalysisReqAlways(caps, ctrls) ==
    [NoReq EXCEPT !.capability_ids = caps, !.has_control_ids = TRUE, !.control_ids = ctrls]

\* DashboardMetrics.recalculateMetrics: the request payload.
AnalysisReq(caps, ctrls) ==
    [NoReq EXCEPT !.capability_ids = caps,
                  !.has_control_ids = (ctrls # {}),
                  !.control_ids = ctrls]

\* DashboardTreeRenderer.serializeControlSelections
SerializeControlSelections(tree, caps, ctrls) ==
    IF tree = "unset" THEN [ctl_ids |-> {}, ctl_active |-> {}]
    ELSE [ctl_ids |-> ControlsOf(caps), ctl_active |-> ControlsOf(caps) \cap ctrls]

\* DashboardScenarios.serializeSelections
SerializeSelections(tree, caps, ctrls) ==
    IF tree = "unset" THEN NoSelections
    ELSE LET cs == SerializeControlSelections(tree, caps, ctrls)
         IN [sel_ids |-> Caps, sel_active |-> Caps \cap caps,
             ctl_ids |-> cs.ctl_ids, ctl_active |-> cs.ctl_active]

\* The capability tree as the array the data service returns it, and each
\* capability's controls array
TreeData == <<"A", "B", "C">>
TreeControls == [A |-> <<"c1", "c2">>, B |-> <<"c2">>, C |-> <<>>]

\* A status that calls an active capability without controls fully active
ComputeStatusVacuous(cap, caps, ctrls) ==
    IF cap \notin caps THEN "inactive"
    ELSE IF \A c \in Tree[cap] : c \in ctrls THEN "fully-active" ELSE "partially-active"

\* DashboardTreeRenderer.createCapabilityColumn: the class of a capability's card
ComputeStatus(cap, caps, ctrls) ==
    LET isActive == cap \in caps
        controls == TreeControls[cap]
        activeControlsCount == Cardinality({i \in DOMAIN controls : controls[i] \in ctrls})
    IN IF isActive /\ Len(controls) > 0
       THEN IF activeControlsCount = Len(controls) THEN "fully-active"
            ELSE "partially-active"
       ELSE IF isActive /\ Len(controls) = 0 THEN "partially-active"
       ELSE "inactive"

\* A selections array that lists the active capabilities only
CapabilitySelectionsActiveOnly(tree, caps) ==
    IF tree = "unset" THEN <<>>
    ELSE SelectSeq([i \in DOMAIN TreeData |->
                       [capability_id |-> TreeData[i], is_active |-> TreeData[i] \in caps]],
                   LAMBDA e : e.is_active)

\* DashboardScenarios.serializeSelections: the selections array (treeData.map)
CapabilitySelections(tree, caps) ==
    IF tree = "unset" THEN <<>>
    ELSE [i \in DOMAIN TreeData |->
             [capability_id |-> TreeData[i], is_active |-> TreeData[i] \in caps]]

\* The inner forEach of serializeControlSelections over one capability's controls:
\* a control_id not yet in the map is added, one already there is only OR-ed.
RECURSIVE AddControlSelections(_, _, _)
AddControlSelections(list, controls, ctrls) ==
    IF controls = <<>> THEN list
    ELSE LET c == Head(controls)
             isActive == c \in ctrls
             has == \E i \in DOMAIN list : list[i].control_id = c
         IN AddControlSelections(
                IF ~has THEN Append(list, [control_id |-> c, is_active |-> isActive])
                ELSE [i \in DOMAIN list |->
                         IF list[i].control_id = c /\ isActive /\ ~list[i].is_active
                         THEN [list[i] EXCEPT !.is_active = TRUE] ELSE list[i]],
                Tail(controls), ctrls)

\* The outer forEach, over the active capabilities in the Set's iteration order;
\* an id the tree does not know is skipped.
RECURSIVE ControlSelectionsFrom(_, _, _)
ControlSelectionsFrom(list, order, ctrls) ==
    IF order = <<>> THEN list
    ELSE ControlSelectionsFrom(
             IF Head(order) \in Caps
             THEN AddControlSelections(list, TreeControls[Head(order)], ctrls) ELSE list,
             Tail(order), ctrls)

\* A control_selections array with one entry per occurrence of a control
ControlSelectionsNoDedup(tree, order, ctrls) ==
    IF tree = "unset" THEN <<>>
    ELSE LET ids == {c \in Caps : \E i \in DOMAIN order : order[i] = c}
             occ == {<<cap, i>> \in ids \X (1..2) : i \in DOMAIN TreeControls[cap]}
             f == CHOOSE g \in [1..Cardinality(occ) -> occ] :
                      \A x, y \in 1..Cardinality(occ) : x # y => g[x] # g[y]
         IN [k \in 1..Cardinality(occ) |->
                [control_id |-> TreeControls[f[k][1]][f[k][2]],
                 is_active |-> TreeControls[f[k][1]][f[k][2]] \in ctrls]]

\* DashboardTreeRenderer.serializeControlSelections: the control_selections array
ControlSelections(tree, order, ctrls) ==
    IF tree = "unset" THEN <<>> ELSE ControlSelectionsFrom(<<>>, order, ctrls)

\* The orders in which a Set holding the elements of S can iterate
Orders(S) == {o \in [1..Cardinality(S) -> S] : \A x, y \in DOMAIN o : x # y => o[x] # o[y]}

UpdateReq(tree, caps, ctrls) == [NoReq EXCEPT !.body = SerializeSelections(tree, caps, ctrls)]

\* ---- metrics (DashboardMetrics) ------------------------------------------------
\* null, as a remembered metric value
NullMetric == -1

\* DashboardMetrics constructor: no metric value is remembered yet
NoMetrics == [active_controls |-> NullMetric, exposed_risks |-> NullMetric,
              partially_covered_risks |-> NullMetric, active_risks |-> NullMetric]

\* POST /api/capability-analysis: the controls that count as active are those of
\* the requested capabilities, filtered by control_ids when the field is present.
\* Every control mitigates one risk of its own, which is covered when the control
\* is active and exposed otherwise.
Analysis(req) ==
    LET assigned == ControlsOf(req.capability_ids)
        active == IF req.has_control_ids THEN assigned \cap req.control_ids ELSE assigned
    IN [active_controls |-> Cardinality(active),
        exposed_risks |-> Cardinality(Ctrls \ active),
        partially_covered_risks |-> 0,
        active_risks |-> Cardinality(active)]

\* The colour recalculateMetrics passes to animateMetricChange for the
\* active-controls card ("none": animateMetricChange is not called)
ActiveControlsColour(previous, value) ==
    IF previous # NullMetric /\ previous # value
    THEN IF value - previous > 0 THEN "green" ELSE "yellow"
    ELSE "none"

\* The same for the partially-covered card: prev holds the values remembered
\* before this response, metrics the response
PartiallyCoveredColourSign(prev, metrics) ==
    IF prev.partially_covered_risks # NullMetric
         /\ prev.partially_covered_risks # metrics.partially_covered_risks
    THEN IF metrics.partially_covered_risks - prev.partially_covered_risks > 0
         THEN "yellow" ELSE "green"
    ELSE "none"
PartiallyCoveredColour(prev, metrics) ==
    LET value == metrics.partially_covered_risks
        previous == prev.partially_covered_risks
        change == value - previous
        exposedChange == IF prev.exposed_risks # NullMetric
                         THEN metrics.exposed_risks - prev.exposed_risks ELSE 0
        activeRisksChange == IF prev.active_risks # NullMetric
                             THEN metrics.active_risks - prev.active_risks ELSE 0
    IN IF previous # NullMetric /\ previous # value
       THEN IF change > 0
            THEN IF exposedChange < 0 THEN "green"
                 ELSE IF activeRisksChange < 0 THEN "yellow"
                 ELSE "yellow"
            ELSE IF activeRisksChange > 0 THEN "green"
                 ELSE IF exposedChange > 0 THEN "yellow"
                 ELSE "green"
       ELSE "none"

\* The same for the exposed-risks card
ExposedRisksColourSwapped(previous, value) ==
    IF previous # NullMetric /\ previous # value
    THEN IF value - previous > 0 THEN "green" ELSE "red"
    ELSE "none"
ExposedRisksColour(previous, value) ==
    IF previous # NullMetric /\ previous # value
    THEN IF value - previous > 0 THEN "red" ELSE "green"
    ELSE "none"

NoSignals == [active_controls |-> "none", partially_covered_risks |-> "none",
              exposed_risks |-> "none"]

\* The three calls of animateMetricChange of one response
MetricSignals(prev, metrics) ==
    [active_controls |-> ActiveControlsColour(prev.active_controls, metrics.active_controls),
     partially_covered_risks |-> PartiallyCoveredColour(prev, metrics),
     exposed_risks |-> ExposedRisksColour(prev.exposed_risks, metrics.exposed_risks)]

\* The values recalculateMetrics remembers from a response (x || 0 is x for the
\* counts the service returns)
Remembered(metrics) ==
    [active_controls |-> metrics.active_controls,
     exposed_risks |-> metrics.exposed_risks,
     partially_covered_risks |-> metrics.partially_covered_risks,
     active_risks |-> metrics.active_risks]

\* recalculateMetrics from the parsed response on
ShowMetrics(metrics) ==
    /\ metricSignals' = MetricSignals(previousMetrics, metrics)
    /\ previousMetrics' = Remembered(metrics)

\* A recalculateMetrics that drops the answer to a request that is no longer the
\* request of the current selection
RecalculateMetricsDoneCurrentOnly(s, ok) ==
    IF ok /\ tasks[s].req = AnalysisReq(activeCapabilities, activeControls)
    THEN ShowMetrics(Analysis(tasks[s].req)) ELSE UNCHANGED metricVars

\* A recalculateMetrics that forgets the remembered values when its request fails
RecalculateMetricsDoneReset(s, ok) ==
    IF ok THEN ShowMetrics(Analysis(tasks[s].req))
    ELSE previousMetrics' = NoMetrics /\ UNCHANGED metricSignals

\* DashboardMetrics.recalculateMetrics after its fetch: a response is written to
\* the metric cards and remembered; a failure is caught, and its text goes to the
\* page's error element (DashboardCore.showError), which no handler reads.
RecalculateMetricsDone(s, ok) ==
    IF ok THEN ShowMetrics(Analysis(tasks[s].req)) ELSE UNCHANGED metricVars

\* ---- task slots -----------------------------------------------------------
Slots == 1..MaxTasks
HasFree == \E s \in Slots : tasks[s] = Idle
FreeSlot == CHOOSE s \in Slots : tasks[s] = Idle /\ \A t \in Slots : t < s => tasks[t] # Idle
NoTasks == \A s \in Slots : tasks[s] = Idle
Task(op, pc, sid, ret, first, req) ==
    [op |-> op, pc |-> pc, sid |-> sid, ret |-> ret, first |-> first, req |-> req]
CanStart == ops < MaxOps /\ HasFree
Bound == scenarioManager /\ smCurrentScenarioId # NoId

Init ==
    /\ treeData = "unset"
    /\ treeGroup = FALSE
    /\ activeCapabilities = {}
    /\ activeControls = {}
    /\ userId = NoUser
    /\ scenarioManager = FALSE
    /\ smCurrentScenarioId = NoId
    /\ currentScenarioId = NoId
    /\ scenariosInitialized = FALSE
    /\ draftUserId = DefaultDraftUser
    /\ localStorage = [k \in DraftKeys |-> NoDraft]
    /\ autoSaveTimer = "null"
    /\ staleTimers = 0
    /\ statusType = "none"
    /\ statusText = NoText
    /\ saveStatus = "none"
    /\ \E dflt \in BOOLEAN, has \in BOOLEAN :
         server = [i \in ScenarioIds |->
                     IF i = 1 /\ has THEN LegacyScenario(dflt) ELSE NoScenario]
    /\ previousMetrics = NoMetrics
    /\ metricSignals = NoSignals
    /\ tasks = [s \in Slots |-> Idle]
    /\ ops = 0

\* ---- timers (setTimeout / clearTimeout) -----------------------------------
\* A clearTimeout that cancels nothing: a pending timer stays pending, unnamed
ClearTimeoutNoCancel(timer, stale) == IF timer = "pending" THEN stale + 1 ELSE stale

\* clearTimeout(this.autoSaveTimer): the timer the handle names is removed, so no
\* pending timer is left behind unnamed.
ClearTimeout(timer, stale) == stale

\* DashboardScenarios.scheduleAutoSave
ScheduleAutoSave ==
    /\ staleTimers' = (IF autoSaveTimer # "null"
                       THEN ClearTimeout(autoSaveTimer, staleTimers) ELSE staleTimers)
    /\ autoSaveTimer' = "pending"
    /\ saveStatus' = "unsaved"

\* ---- draft store (DraftManager over localStorage) ---------------------------
\* DraftManager.persistDraft: the stored value; setItem may throw (quota).
DraftOf(caps, ctrls) ==
    [present |-> TRUE, activeCapabilityIds |-> caps, activeControlIds |-> ctrls]

\* DashboardScenarios.persistDraft on the current selection
PersistDraft(storageOk) ==
    /\ localStorage' = IF storageOk
                       THEN [localStorage EXCEPT ![draftUserId] =
                                 DraftOf(activeCapabilities, activeControls)]
                       ELSE localStorage
    /\ saveStatus' = IF storageOk THEN "saved" ELSE "error"

\* DashboardScenarios.clearDraft, for the DraftManager in use after the step
ClearDraftFor(key) == localStorage' = [localStorage EXCEPT ![key] = NoDraft]
ClearDraft == ClearDraftFor(draftUserId)

\* ---- selection handlers -----------------------------------------------------
\* Rendering changes no state of the worksheet, but createVerticalTree throws a
\* TypeError when there is a tree to draw and setupSVG never ran: it reads
\* this.treeGroup.selectAll.  With no treeData it reports and returns.
CreateVerticalTreeThrows(tree, group) == tree = "loaded" /\ ~group

\* toggleCapability without its cascade onto the capability's controls
CascadeControlsNone(cap, wasActive, ctrls) == ctrls

\* A cascade that removes controls on deactivation and adds none on activation
CascadeControlsOffOnly(cap, wasActive, ctrls) ==
    IF wasActive THEN ctrls \ Tree[cap] ELSE ctrls

\* toggleCapability: the controls left after the cascade (843-858)
CascadeControls(cap, wasActive, ctrls) ==
    IF wasActive THEN ctrls \ Tree[cap] ELSE ctrls \cup Tree[cap]

\* DashboardTreeRenderer.toggleCapability, up to its await of recalculateMetrics
ToggleCapability(cap) ==
    /\ treeData = "loaded"
    /\ treeGroup      \* the handler hangs on a card drawn by createCapabilityColumn (478)
    /\ ops < MaxOps
    /\ ops' = ops + 1
    /\ IF cap = InvalidCap
       THEN UNCHANGED <<activeCapabilities, activeControls, tasks>>
       ELSE LET wasActive == cap \in activeCapabilities
                caps == IF wasActive THEN activeCapabilities \ {cap}
                        ELSE activeCapabilities \cup {cap}
                ctrls == CascadeControls(cap, wasActive, activeControls)
            IN /\ activeCapabilities' = caps
               /\ activeControls' = ctrls
               /\ IF CreateVerticalTreeThrows(treeData, treeGroup)
                  THEN UNCHANGED tasks
                  ELSE /\ HasFree
                       /\ tasks' = [tasks EXCEPT ![FreeSlot] =
                             Task("toggleCapability", "recalc", NoId, "none", FALSE,
                                  AnalysisReq(caps, ctrls))]
    /\ UNCHANGED <<treeData, treeGroup, bindVars, scenariosInitialized, localStorage, timerVars,
                   uiVars, server>>
    /\ UNCHANGED metricVars
    /\ TextFollowsType

\* The control toggle without its guard
ControlToggleAllowedAlways(cap, caps) == TRUE

\* The control toggle's guard (797): the owning capability is active
ControlToggleAllowed(cap, caps) == cap \in caps

\* The control checkbox's change handler of showCapabilityModal, up to its await
ToggleControl(ctrl, cap) ==
    /\ treeData = "loaded"
    /\ treeGroup      \* the modal opens from a card drawn by createCapabilityColumn (510)
    /\ ctrl \in Tree[cap]
    /\ ops < MaxOps
    /\ ops' = ops + 1
    /\ IF ~ControlToggleAllowed(cap, activeCapabilities)
       THEN UNCHANGED <<activeControls, tasks>>
       ELSE /\ HasFree
            /\ LET ctrls == IF ctrl \in activeControls THEN activeControls \ {ctrl}
                            ELSE activeControls \cup {ctrl}
               IN /\ activeControls' = ctrls
                  /\ tasks' = [tasks EXCEPT ![FreeSlot] =
                        Task("toggleControl", "recalc", NoId, "none", FALSE,
                             AnalysisReq(activeCapabilities, ctrls))]
    /\ UNCHANGED <<treeData, treeGroup, activeCapabilities, bindVars, scenariosInitialized,
                   localStorage, timerVars, uiVars, server>>
    /\ UNCHANGED metricVars
    /\ TextFollowsType

\* An activateAll that activates capabilities and leaves the controls alone
ActivateAllControlsNone(ctrls) == ctrls

\* activateAllCapabilities: cap.controls.forEach(control => activeControls.add(...))
\* for every capability of the tree
ActivateAllControls(ctrls) == ctrls \cup ControlsOf(Caps)

\* DashboardScenarios.activateAllCapabilities, up to its await
ActivateAll ==
    /\ treeData = "loaded"
    /\ ops < MaxOps
    /\ ops' = ops + 1
    /\ activeCapabilities' = activeCapabilities \cup Caps
    /\ activeControls' = ActivateAllControls(activeControls)
    /\ IF CreateVerticalTreeThrows(treeData, treeGroup)
       THEN UNCHANGED tasks
       ELSE /\ HasFree
            /\ tasks' = [tasks EXCEPT ![FreeSlot] =
                  Task("activateAll", "recalc", NoId, "none", FALSE,
                       AnalysisReq(activeCapabilities', activeControls'))]
    /\ UNCHANGED <<treeData, treeGroup, bindVars, scenariosInitialized, localStorage, timerVars,
                   uiVars, server>>
    /\ UNCHANGED metricVars
    /\ TextFollowsType

\* DashboardScenarios.clearAllCapabilities, up to its await
ClearAll ==
    /\ treeData = "loaded"
    /\ ops < MaxOps
    /\ ops' = ops + 1
    /\ activeCapabilities' = {}
    /\ activeControls' = {}
    /\ IF CreateVerticalTreeThrows(treeData, treeGroup)
       THEN UNCHANGED tasks
       ELSE /\ HasFree
            /\ tasks' = [tasks EXCEPT ![FreeSlot] =
                  Task("clearAll", "recalc", NoId, "none", FALSE, AnalysisReq({}, {}))]
    /\ UNCHANGED <<treeData, treeGroup, bindVars, scenariosInitialized, localStorage, timerVars,
                   uiVars, server>>
    /\ UNCHANGED metricVars
    /\ TextFollowsType

\* The capability-analysis response (or failure: recalculateMetrics catches it)
\* resumes the mutation handler: it schedules the auto-save.
MutationRecalcDone(s, ok) ==
    /\ tasks[s].pc = "recalc"
    /\ tasks[s].op \in {"toggleCapability", "toggleControl", "activateAll", "clearAll"}
    /\ ScheduleAutoSave
    /\ statusType' = IF tasks[s].op \in {"activateAll", "clearAll"} THEN "success"
                     ELSE statusType
    /\ tasks' = [tasks EXCEPT ![s] = Idle]
    /\ UNCHANGED <<treeData, treeGroup, selVars, bindVars, scenariosInitialized, localStorage,
                   server, ops>>
    /\ RecalculateMetricsDone(s, ok)
    /\ TextFollowsType

\* ---- saving -------------------------------------------------------------------
\* A saveScenario that, unbound, warns without persisting the draft
SaveScenarioBodyNoDraft ==
    IF ~Bound
    THEN /\ statusType' = "warning"
         /\ UNCHANGED <<tasks, localStorage, saveStatus>>
    ELSE /\ HasFree
         /\ saveStatus' = "saving"
         /\ tasks' = [tasks EXCEPT ![FreeSlot] =
               Task("save", "put", smCurrentScenarioId, "none", FALSE,
                    UpdateReq(treeData, activeCapabilities, activeControls))]
         /\ UNCHANGED <<statusType, localStorage>>

\* DashboardScenarios.saveScenario, up to its await of updateScenario
SaveScenarioBody ==
    IF ~Bound
    THEN /\ statusType' = "warning"
         /\ \E storageOk \in BOOLEAN : PersistDraft(storageOk)
         /\ UNCHANGED tasks
    ELSE /\ HasFree
         /\ saveStatus' = "saving"
         /\ tasks' = [tasks EXCEPT ![FreeSlot] =
               Task("save", "put", smCurrentScenarioId, "none", FALSE,
                    UpdateReq(treeData, activeCapabilities, activeControls))]
         /\ UNCHANGED <<statusType, localStorage>>

SaveScenario ==
    /\ ops < MaxOps
    /\ ops' = ops + 1
    /\ SaveScenarioBody
    /\ UNCHANGED <<treeData, treeGroup, selVars, bindVars, scenariosInitialized, timerVars, server>>
    /\ UNCHANGED metricVars
    /\ TextFollowsType

\* The data service's PUT /api/capability-scenarios/{id}
ServerUpdate(id, body) == [server EXCEPT ![id].data = body]

\* saveScenario after updateScenario resolved or threw
SaveDone(s, ok) ==
    /\ tasks[s].op = "save" /\ tasks[s].pc = "put"
    /\ ok => server[tasks[s].sid].state = "live"
    /\ IF ok
       THEN /\ server' = ServerUpdate(tasks[s].sid, tasks[s].req.body)
            /\ saveStatus' = "saved"
            /\ statusType' = "success"
            /\ ClearDraft
       ELSE /\ saveStatus' = "error"
            /\ statusType' = "error"
            /\ UNCHANGED <<server, localStorage>>
    /\ tasks' = [tasks EXCEPT ![s] = Idle]
    /\ UNCHANGED <<treeData, treeGroup, selVars, bindVars, scenariosInitialized, timerVars, ops>>
    /\ UNCHANGED metricVars
    /\ TextFollowsType

\* A timer callback that persists the draft whatever the binding
TimerFireDraftOnly(named) ==
    /\ IF named
       THEN autoSaveTimer = "pending" /\ autoSaveTimer' = "fired" /\ UNCHANGED staleTimers
       ELSE staleTimers > 0 /\ staleTimers' = staleTimers - 1 /\ UNCHANGED autoSaveTimer
    /\ \E storageOk \in BOOLEAN : PersistDraft(storageOk)
    /\ UNCHANGED <<tasks, statusType>>
    /\ UNCHANGED <<treeData, treeGroup, selVars, bindVars, scenariosInitialized, server, ops>>
    /\ UNCHANGED metricVars
    /\ TextFollowsType

\* The callback of the auto-save timer; which pending timer fires is the
\* environment's choice.
TimerFire(named) ==
    /\ IF named
       THEN autoSaveTimer = "pending" /\ autoSaveTimer' = "fired" /\ UNCHANGED staleTimers
       ELSE staleTimers > 0 /\ staleTimers' = staleTimers - 1 /\ UNCHANGED autoSaveTimer
    /\ IF Bound
       THEN SaveScenarioBody
       ELSE /\ \E storageOk \in BOOLEAN : PersistDraft(storageOk)
            /\ UNCHANGED <<tasks, statusType>>
    /\ UNCHANGED <<treeData, treeGroup, selVars, bindVars, scenariosInitialized, server, ops>>
    /\ UNCHANGED metricVars
    /\ TextFollowsType

\* beforeunload / visibilitychange(hidden) listeners: persistDraft()
PageHidden ==
    /\ ops < MaxOps
    /\ ops' = ops + 1
    /\ \E storageOk \in BOOLEAN : PersistDraft(storageOk)
    /\ UNCHANGED <<treeData, treeGroup, selVars, bindVars, scenariosInitialized, timerVars,
                   statusType, server, tasks>>
    /\ UNCHANGED metricVars
    /\ TextFollowsType

\* ---- loading a scenario ---------------------------------------------------------
\* What the caller of `await this.loadScenario(..)` does once it returns:
\* createNewScenario (462-465), saveAsScenario (554-557), renderCapabilities after
\* initializeScenarioManagement (366).  loadStatus and loadSave are the status
\* message and the save status loadScenario left.
LoadReturn(s, loadStatus, loadSave) ==
    LET ret == tasks[s].ret IN
    /\ statusType' = IF ret \in {"createNew", "saveAs"} THEN "success" ELSE loadStatus
    /\ saveStatus' = IF ret = "saveAs" THEN "saved" ELSE loadSave
    /\ localStorage' = IF ret \in {"createNew", "saveAs"}
                       THEN [localStorage EXCEPT ![draftUserId] = NoDraft]
                       ELSE localStorage
    /\ scenariosInitialized' = IF ret = "init" THEN TRUE ELSE scenariosInitialized
    /\ tasks' = [tasks EXCEPT ![s] = Idle]

\* DashboardScenarios.loadScenario from line 118 (userId known) to its first await
LoadEnter(s, id, ret) ==
    /\ scenarioManager' = TRUE
    /\ IF id = NoId
       THEN /\ smCurrentScenarioId' = NoId
            /\ currentScenarioId' = NoId
            /\ activeCapabilities' = {}
            /\ activeControls' = {}
            /\ tasks' = [tasks EXCEPT ![s] =
                  IF CreateVerticalTreeThrows(treeData, treeGroup) THEN Idle
                  ELSE Task("load", "recalcNull", NoId, ret, FALSE, AnalysisReq({}, {}))]
       ELSE /\ UNCHANGED <<smCurrentScenarioId, currentScenarioId, selVars>>
            /\ tasks' = [tasks EXCEPT ![s] = Task("load", "get", id, ret, FALSE, NoReq)]

\* The scenario selector's change handler: loadScenario(parseInt(value))
LoadScenario(id) ==
    /\ CanStart
    /\ id # NoId => scenarioManager
    /\ ops' = ops + 1
    /\ IF userId = NoUser
       THEN /\ tasks' = [tasks EXCEPT ![FreeSlot] =
                  Task("load", "fetchUser", id, "none", FALSE, NoReq)]
            /\ UNCHANGED <<scenarioManager, smCurrentScenarioId, currentScenarioId, selVars>>
       ELSE LoadEnter(FreeSlot, id, "none")
    /\ UNCHANGED <<treeData, treeGroup, userId, scenariosInitialized, draftUserId, localStorage,
                   timerVars, uiVars, server>>
    /\ UNCHANGED metricVars
    /\ TextFollowsType

\* loadScenario after fetchUserId (106-116)
LoadUserDone(s, ok) ==
    /\ tasks[s].op = "load" /\ tasks[s].pc = "fetchUser"
    /\ IF ok
       THEN /\ userId' = AuthUser
            /\ LoadEnter(s, tasks[s].sid, tasks[s].ret)
            /\ UNCHANGED statusType
       ELSE /\ statusType' = "error"
            /\ tasks' = [tasks EXCEPT ![s] = Idle]
            /\ UNCHANGED <<userId, scenarioManager, smCurrentScenarioId, currentScenarioId,
                           selVars>>
    /\ UNCHANGED <<treeData, treeGroup, scenariosInitialized, draftUserId, localStorage, timerVars,
                   saveStatus, server, ops>>
    /\ UNCHANGED metricVars
    /\ TextFollowsType

\* A restore without the default for scenarios stored without control selections
RestoredControlsExplicitOnly(data, tree, caps) == data.ctl_active

\* The control selections loadScenario restores (177-197), added to activeControls
RestoredControls(data, tree, caps) ==
    IF data.ctl_ids # {} THEN data.ctl_active
    ELSE IF tree = "loaded" THEN ControlsOf(caps) ELSE {}

\* loadScenario after scenarioManager.loadScenario resolved or threw (140-175)
LoadGetDone(s, ok) ==
    /\ tasks[s].op = "load" /\ tasks[s].pc = "get"
    /\ ok => server[tasks[s].sid].state = "live"
    /\ IF ok
       THEN LET data == server[tasks[s].sid].data
                caps == data.sel_active
            IN /\ smCurrentScenarioId' = tasks[s].sid
               /\ currentScenarioId' = tasks[s].sid
               /\ activeCapabilities' = caps
               /\ IF treeData = "unset"
                  THEN /\ activeControls' = {}
                       /\ tasks' = [tasks EXCEPT ![s].pc = "getTree",
                                                 ![s].req = [NoReq EXCEPT !.body = data]]
                       /\ UNCHANGED <<uiVars, localStorage, scenariosInitialized>>
                  ELSE /\ activeControls' = RestoredControls(data, treeData, caps)
                       /\ IF CreateVerticalTreeThrows(treeData, treeGroup)
                          THEN LoadReturn(s, "error", saveStatus)
                          ELSE /\ tasks' = [tasks EXCEPT ![s].pc = "recalc",
                                      ![s].req = AnalysisReq(caps, activeControls')]
                               /\ UNCHANGED <<uiVars, localStorage, scenariosInitialized>>
       ELSE /\ LoadReturn(s, "error", saveStatus)
            /\ UNCHANGED <<smCurrentScenarioId, currentScenarioId, selVars>>
    /\ UNCHANGED <<treeData, treeGroup, userId, scenarioManager, draftUserId, timerVars, server, ops>>
    /\ UNCHANGED metricVars
    /\ TextFollowsType

\* loadScenario after its own fetch of the capability tree (166-203)
LoadTreeDone(s, ok) ==
    /\ tasks[s].op = "load" /\ tasks[s].pc = "getTree"
    /\ treeData' = IF ok THEN "loaded" ELSE treeData
    /\ activeControls' = activeControls \cup
                         RestoredControls(tasks[s].req.body, treeData', activeCapabilities)
    /\ IF CreateVerticalTreeThrows(treeData', treeGroup)
       THEN LoadReturn(s, "error", saveStatus)
       ELSE /\ tasks' = [tasks EXCEPT ![s].pc = "recalc",
                   ![s].req = AnalysisReq(activeCapabilities, activeControls')]
            /\ UNCHANGED <<uiVars, localStorage, scenariosInitialized>>
    /\ UNCHANGED <<treeGroup, activeCapabilities, bindVars, timerVars, server, ops>>
    /\ UNCHANGED metricVars
    /\ TextFollowsType

\* loadScenario after recalculateMetrics (203-215 and 134-137)
LoadRecalcDone(s, ok) ==
    /\ tasks[s].op = "load" /\ tasks[s].pc \in {"recalc", "recalcNull"}
    /\ IF tasks[s].pc = "recalc" THEN LoadReturn(s, "success", "saved")
       ELSE LoadReturn(s, statusType, "none")
    /\ UNCHANGED <<treeData, treeGroup, selVars, bindVars, timerVars, server, ops>>
    /\ RecalculateMetricsDone(s, ok)
    /\ TextFollowsType

\* ---- the data service's scenario store ----------------------------------------
FreeIds == {i \in ScenarioIds : server[i].state = "free"}
NewId == CHOOSE i \in FreeIds : \A j \in FreeIds : i <= j
\* POST /api/capability-scenarios: a fresh, empty, non-default scenario
ServerCreate(id) == [server EXCEPT ![id] = [NoScenario EXCEPT !.state = "live"]]
\* DELETE /api/capability-scenarios/{id}; ids are not reused
ServerDelete(id) == [server EXCEPT ![id] = [NoScenario EXCEPT !.state = "deleted"]]
\* A scenario list in which no scenario is found to be the default
DefaultIdsNone == {}

\* ScenarioManager.getDefaultScenario: the scenarios of the list with is_default
DefaultIds == {i \in ScenarioIds : server[i].state = "live" /\ server[i].is_default}

\* ---- creating scenarios ---------------------------------------------------------
\* createNewScenario / saveAsScenario with a non-blank name, up to the first await
CreateStart(op) ==
    /\ CanStart
    /\ FreeIds # {}
    /\ ops' = ops + 1
    /\ IF userId = NoUser
       THEN /\ tasks' = [tasks EXCEPT ![FreeSlot] =
                  Task(op, "fetchUser", NoId, "none", FALSE, NoReq)]
            /\ UNCHANGED scenarioManager
       ELSE /\ scenarioManager' = TRUE
            /\ tasks' = [tasks EXCEPT ![FreeSlot] =
                  Task(op, "post", NoId, "none", FALSE, NoReq)]
    /\ UNCHANGED <<treeData, treeGroup, selVars, userId, smCurrentScenarioId, currentScenarioId,
                   scenariosInitialized, draftUserId, localStorage, timerVars,
                   uiVars, server>>
    /\ UNCHANGED metricVars
    /\ TextFollowsType

\* The prompt answered with a blank name, or cancelled: the handler returns
PromptBlank ==
    /\ ops < MaxOps
    /\ ops' = ops + 1
    /\ UNCHANGED <<treeData, treeGroup, selVars, bindVars, scenariosInitialized, localStorage,
                   timerVars, uiVars, statusText, server, tasks, metricVars>>

\* DashboardScenarios.createNewScenario up to its first await: the prompt comes
\* first (443-446)
CreateNewScenario(blank) == IF blank THEN PromptBlank ELSE CreateStart("createNew")

\* DashboardScenarios.saveAsScenario up to its first await: the prompt comes after
\* fetchUserId and the construction of the ScenarioManager (523-541)
SaveAsScenario(blank) ==
    IF blank /\ userId # NoUser
    THEN /\ ops < MaxOps
         /\ ops' = ops + 1
         /\ scenarioManager' = TRUE
         /\ UNCHANGED <<treeData, treeGroup, selVars, userId, smCurrentScenarioId,
                        currentScenarioId, draftUserId, scenariosInitialized, localStorage,
                        timerVars, uiVars, statusText, server, tasks, metricVars>>
    ELSE CreateStart("saveAs")

\* A failure that ends the handler without any status
CreateFailedSilent(s) ==
    /\ tasks' = [tasks EXCEPT ![s] = Idle]
    /\ UNCHANGED uiVars

\* The catch blocks of createNewScenario (467-471) and saveAsScenario (558-571)
CreateFailed(s) ==
    /\ statusType' = "error"
    /\ saveStatus' = IF tasks[s].op = "saveAs" THEN "error" ELSE saveStatus
    /\ tasks' = [tasks EXCEPT ![s] = Idle]

\* createNewScenario (450-458) / saveAsScenario (523-545) after fetchUserId
CreateUserDone(s, ok, blank) ==
    /\ tasks[s].op \in {"createNew", "saveAs"} /\ tasks[s].pc = "fetchUser"
    /\ IF ok
       THEN /\ userId' = AuthUser
            /\ scenarioManager' = TRUE
            /\ tasks' = IF tasks[s].op = "saveAs" /\ blank
                        THEN [tasks EXCEPT ![s] = Idle]
                        ELSE [tasks EXCEPT ![s].pc = "post"]
            /\ UNCHANGED uiVars
       ELSE /\ statusType' = "error"
            /\ tasks' = [tasks EXCEPT ![s] = Idle]
            /\ UNCHANGED <<userId, scenarioManager, saveStatus>>
    /\ UNCHANGED <<treeData, treeGroup, selVars, smCurrentScenarioId, currentScenarioId,
                   scenariosInitialized, draftUserId, localStorage, timerVars, server, ops>>
    /\ UNCHANGED metricVars
    /\ TextFollowsType

\* ScenarioManager.createScenario after its POST (71-86)
CreatePostDone(s, ok) ==
    /\ tasks[s].op \in {"createNew", "saveAs"} /\ tasks[s].pc = "post"
    /\ ok => FreeIds # {}
    /\ IF ok
       THEN /\ server' = ServerCreate(NewId)
            /\ tasks' = [tasks EXCEPT ![s].pc = "list", ![s].sid = NewId]
            /\ UNCHANGED uiVars
       ELSE /\ CreateFailed(s)
            /\ UNCHANGED server
    /\ UNCHANGED <<treeData, treeGroup, selVars, bindVars, scenariosInitialized, localStorage,
                   timerVars, ops>>
    /\ UNCHANGED metricVars
    /\ TextFollowsType

\* createScenario after its refresh of the scenario list (86-91), and the caller
\* on from there: createNewScenario 461, saveAsScenario 548-549
CreateListDone(s, ok) ==
    /\ tasks[s].op \in {"createNew", "saveAs"} /\ tasks[s].pc = "list"
    /\ IF ~ok
       THEN /\ CreateFailed(s)
            /\ UNCHANGED <<scenarioManager, smCurrentScenarioId, currentScenarioId, selVars>>
       ELSE IF tasks[s].op = "createNew"
       THEN /\ LoadEnter(s, tasks[s].sid, "createNew")
            /\ UNCHANGED uiVars
       ELSE /\ tasks' = [tasks EXCEPT ![s].pc = "put",
                  ![s].req = UpdateReq(treeData, activeCapabilities, activeControls)]
            /\ UNCHANGED <<uiVars, scenarioManager, smCurrentScenarioId,
                           currentScenarioId, selVars>>
    /\ UNCHANGED <<treeData, treeGroup, userId, scenariosInitialized, draftUserId, localStorage,
                   timerVars, server, ops>>
    /\ UNCHANGED metricVars
    /\ TextFollowsType

\* saveAsScenario after updateScenario (549-552)
SaveAsPutDone(s, ok) ==
    /\ tasks[s].op = "saveAs" /\ tasks[s].pc = "put"
    /\ ok => server[tasks[s].sid].state = "live"
    /\ IF ok
       THEN /\ server' = ServerUpdate(tasks[s].sid, tasks[s].req.body)
            /\ tasks' = [tasks EXCEPT ![s].pc = "list2", ![s].req = NoReq]
            /\ UNCHANGED uiVars
       ELSE /\ CreateFailed(s)
            /\ UNCHANGED server
    /\ UNCHANGED <<treeData, treeGroup, selVars, bindVars, scenariosInitialized, localStorage,
                   timerVars, ops>>
    /\ UNCHANGED metricVars
    /\ TextFollowsType

\* saveAsScenario after scenarioManager.loadScenarios (552-553)
SaveAsListDone(s, ok) ==
    /\ tasks[s].op = "saveAs" /\ tasks[s].pc = "list2"
    /\ IF ok
       THEN /\ LoadEnter(s, tasks[s].sid, "saveAs")
            /\ UNCHANGED uiVars
       ELSE /\ CreateFailed(s)
            /\ UNCHANGED <<scenarioManager, smCurrentScenarioId, currentScenarioId, selVars>>
    /\ UNCHANGED <<treeData, treeGroup, userId, scenariosInitialized, draftUserId, localStorage,
                   timerVars, server, ops>>
    /\ UNCHANGED metricVars
    /\ TextFollowsType

\* ---- deleting the bound scenario ------------------------------------------------
\* DashboardScenarios.deleteScenario with the confirm accepted, up to its await
DeleteScenario ==
    /\ ops < MaxOps
    /\ ops' = ops + 1
    /\ IF ~Bound
       THEN /\ statusType' = "warning"
            /\ UNCHANGED tasks
       ELSE /\ HasFree
            /\ tasks' = [tasks EXCEPT ![FreeSlot] =
                  Task("delete", "delete", smCurrentScenarioId, "none", FALSE, NoReq)]
            /\ UNCHANGED statusType
    /\ UNCHANGED <<treeData, treeGroup, selVars, bindVars, scenariosInitialized, localStorage,
                   timerVars, saveStatus, server>>
    /\ UNCHANGED metricVars
    /\ TextFollowsType

\* ScenarioManager.deleteScenario after its DELETE (116-127)
DeleteDone(s, ok) ==
    /\ tasks[s].op = "delete" /\ tasks[s].pc = "delete"
    /\ ok => server[tasks[s].sid].state = "live"
    /\ IF ok
       THEN /\ server' = ServerDelete(tasks[s].sid)
            /\ smCurrentScenarioId' = IF smCurrentScenarioId = tasks[s].sid THEN NoId
                                      ELSE smCurrentScenarioId
            /\ tasks' = [tasks EXCEPT ![s].pc = "list"]
            /\ UNCHANGED statusType
       ELSE /\ statusType' = "error"
            /\ tasks' = [tasks EXCEPT ![s] = Idle]
            /\ UNCHANGED <<server, smCurrentScenarioId>>
    /\ UNCHANGED <<treeData, treeGroup, selVars, userId, scenarioManager, currentScenarioId,
                   draftUserId, scenariosInitialized, localStorage, timerVars,
                   saveStatus, ops>>
    /\ UNCHANGED metricVars
    /\ TextFollowsType

\* deleteScenario clearing nothing
DeleteClearsNothing(caps, ctrls) == [caps |-> caps, ctrls |-> ctrls]

\* The selection deleteScenario leaves (490): only activeCapabilities is cleared
DeleteClears(caps, ctrls) == [caps |-> {}, ctrls |-> ctrls]

\* deleteScenario after scenarioManager.deleteScenario resolved or threw (488-495)
DeleteListDone(s, ok) ==
    /\ tasks[s].op = "delete" /\ tasks[s].pc = "list"
    /\ IF ok
       THEN LET sel == DeleteClears(activeCapabilities, activeControls)
            IN /\ activeCapabilities' = sel.caps
               /\ activeControls' = sel.ctrls
               /\ IF CreateVerticalTreeThrows(treeData, treeGroup)
                  THEN /\ statusType' = "error"
                       /\ tasks' = [tasks EXCEPT ![s] = Idle]
                  ELSE /\ tasks' = [tasks EXCEPT ![s].pc = "recalc",
                                        ![s].req = AnalysisReq(sel.caps, sel.ctrls)]
                       /\ UNCHANGED statusType
       ELSE /\ statusType' = "error"
            /\ tasks' = [tasks EXCEPT ![s] = Idle]
            /\ UNCHANGED selVars
    /\ UNCHANGED <<treeData, treeGroup, bindVars, scenariosInitialized, localStorage, timerVars,
                   saveStatus, server, ops>>
    /\ UNCHANGED metricVars
    /\ TextFollowsType

\* deleteScenario after recalculateMetrics (496-512)
DeleteRecalcDone(s, ok) ==
    /\ tasks[s].op = "delete" /\ tasks[s].pc = "recalc"
    /\ saveStatus' = "none"
    /\ statusType' = "success"
    /\ ClearDraft
    /\ smCurrentScenarioId' = NoId
    /\ currentScenarioId' = NoId
    /\ tasks' = [tasks EXCEPT ![s] = Idle]
    /\ UNCHANGED <<treeData, treeGroup, selVars, userId, scenarioManager, draftUserId,
                   scenariosInitialized, timerVars, server, ops>>
    /\ RecalculateMetricsDone(s, ok)
    /\ TextFollowsType

\* ---- opening the capabilities tab ------------------------------------------------
\* DashboardControls.renderCapabilities up to its first await (304-365)
RenderCapabilities ==
    /\ CanStart
    /\ treeData = "unset" \/ ~treeGroup \/ ~scenariosInitialized
    /\ ops' = ops + 1
    /\ treeGroup' = IF treeData = "loaded" THEN TRUE ELSE treeGroup
    /\ LET isFirstLoad == activeCapabilities = {} /\ currentScenarioId = NoId
       IN tasks' = [tasks EXCEPT ![FreeSlot] =
              IF treeData = "unset"
              THEN Task("render", "getTree", NoId, "none", isFirstLoad, NoReq)
              ELSE IF ~scenariosInitialized
              THEN Task("render", "fetchUser", NoId, "none", FALSE, NoReq)
              ELSE Idle]
    /\ UNCHANGED <<treeData, selVars, bindVars, scenariosInitialized, localStorage,
                   timerVars, uiVars, server>>
    /\ UNCHANGED metricVars
    /\ TextFollowsType

\* renderCapabilities after its fetch of the capability tree (327-365)
RenderTreeDone(s, ok) ==
    /\ tasks[s].op = "render" /\ tasks[s].pc = "getTree"
    /\ IF ok
       THEN /\ treeData' = "loaded"
            /\ treeGroup' = TRUE
            /\ activeCapabilities' = IF tasks[s].first THEN activeCapabilities \cup Caps
                                     ELSE activeCapabilities
            /\ tasks' = [tasks EXCEPT ![s] =
                  IF scenariosInitialized THEN Idle
                  ELSE Task("render", "fetchUser", NoId, "none", FALSE, NoReq)]
       ELSE /\ tasks' = [tasks EXCEPT ![s] = Idle]
            /\ UNCHANGED <<treeData, treeGroup, activeCapabilities>>
    /\ UNCHANGED <<activeControls, bindVars, scenariosInitialized, localStorage,
                   timerVars, uiVars, server, ops>>
    /\ UNCHANGED metricVars
    /\ TextFollowsType

\* initializeScenarioManagement after fetchUserId (46-57)
InitUserDone(s, ok) ==
    /\ tasks[s].op = "render" /\ tasks[s].pc = "fetchUser"
    /\ IF ok
       THEN /\ userId' = AuthUser
            /\ scenarioManager' = TRUE
            /\ smCurrentScenarioId' = NoId
            /\ draftUserId' = AuthUser
            /\ tasks' = [tasks EXCEPT ![s].pc = "list"]
            /\ UNCHANGED <<statusType, scenariosInitialized>>
       ELSE /\ statusType' = "error"
            /\ scenariosInitialized' = TRUE
            /\ tasks' = [tasks EXCEPT ![s] = Idle]
            /\ UNCHANGED <<userId, scenarioManager, smCurrentScenarioId, draftUserId>>
    /\ UNCHANGED <<treeData, treeGroup, selVars, currentScenarioId, localStorage, timerVars,
                   saveStatus, server, ops>>
    /\ UNCHANGED metricVars
    /\ TextFollowsType

\* initializeScenarioManagement after scenarioManager.loadScenarios (57-64)
InitListDone(s, ok) ==
    /\ tasks[s].op = "render" /\ tasks[s].pc = "list"
    /\ IF ~ok
       THEN /\ tasks' = [tasks EXCEPT ![s] = Idle]
            /\ UNCHANGED <<scenarioManager, smCurrentScenarioId, currentScenarioId, selVars>>
       ELSE IF DefaultIds # {}
       THEN LoadEnter(s, CHOOSE i \in DefaultIds : \A j \in DefaultIds : i <= j, "init")
       ELSE /\ activeCapabilities' = {}
            /\ tasks' = [tasks EXCEPT ![s].pc = "initRecalc",
                                      ![s].req = AnalysisReq({}, activeControls)]
            /\ UNCHANGED <<scenarioManager, smCurrentScenarioId, currentScenarioId,
                           activeControls>>
    /\ UNCHANGED <<treeData, treeGroup, userId, scenariosInitialized, draftUserId, localStorage,
                   timerVars, uiVars, server, ops>>
    /\ UNCHANGED metricVars
    /\ TextFollowsType

\* initializeScenarioManagement after recalculateMetrics: the restore prompt, and
\* restoreDraft up to its await (65-76, 296-308)
InitRecalcDone(s, ok, restore) ==
    /\ tasks[s].op = "render" /\ tasks[s].pc = "initRecalc"
    /\ LET draft == localStorage[draftUserId]
       IN IF draft.present /\ smCurrentScenarioId = NoId /\ restore
          THEN /\ activeCapabilities' = draft.activeCapabilityIds
               /\ activeControls' = draft.activeControlIds
               /\ tasks' = [tasks EXCEPT ![s].pc = "restoreRecalc",
                     ![s].req = AnalysisReq(draft.activeCapabilityIds, draft.activeControlIds)]
               /\ UNCHANGED scenariosInitialized
          ELSE /\ scenariosInitialized' = TRUE
               /\ tasks' = [tasks EXCEPT ![s] = Idle]
               /\ UNCHANGED selVars
    /\ UNCHANGED <<treeData, treeGroup, bindVars, localStorage, timerVars, uiVars, server, ops>>
    /\ RecalculateMetricsDone(s, ok)
    /\ TextFollowsType

\* restoreDraft after recalculateMetrics, back in renderCapabilities (70-76, 366)
RestoreRecalcDone(s, ok) ==
    /\ tasks[s].op = "render" /\ tasks[s].pc = "restoreRecalc"
    /\ saveStatus' = "unsaved"
    /\ scenariosInitialized' = TRUE
    /\ tasks' = [tasks EXCEPT ![s] = Idle]
    /\ UNCHANGED <<treeData, treeGroup, selVars, bindVars, localStorage, timerVars, statusType,
                   server, ops>>
    /\ RecalculateMetricsDone(s, ok)
    /\ TextFollowsType

\* ---- the event loop ------------------------------------------------------------------
UserEvent ==
    \/ RenderCapabilities
    \/ \E cap \in Caps \cup {InvalidCap} : ToggleCapability(cap)
    \/ \E cap \in Caps : \E ctrl \in Tree[cap] : ToggleControl(ctrl, cap)
    \/ ActivateAll
    \/ ClearAll
    \/ SaveScenario
    \/ \E id \in ScenarioIds \cup {NoId} : LoadScenario(id)
    \/ \E blank \in BOOLEAN : CreateNewScenario(blank)
    \/ \E blank \in BOOLEAN : SaveAsScenario(blank)
    \/ DeleteScenario
    \/ PageHidden

Response ==
    \E s \in Slots : \E ok \in BOOLEAN :
        \/ MutationRecalcDone(s, ok)
        \/ SaveDone(s, ok)
        \/ LoadUserDone(s, ok)
        \/ LoadGetDone(s, ok)
        \/ LoadTreeDone(s, ok)
        \/ LoadRecalcDone(s, ok)
        \/ \E blank \in BOOLEAN : CreateUserDone(s, ok, blank)
        \/ CreatePostDone(s, ok)
        \/ CreateListDone(s, ok)
        \/ SaveAsPutDone(s, ok)
        \/ SaveAsListDone(s, ok)
        \/ DeleteDone(s, ok)
        \/ DeleteListDone(s, ok)
        \/ DeleteRecalcDone(s, ok)
        \/ RenderTreeDone(s, ok)
        \/ InitUserDone(s, ok)
        \/ InitListDone(s, ok)
        \/ \E restore \in BOOLEAN : InitRecalcDone(s, ok, restore)
        \/ RestoreRecalcDone(s, ok)

Next ==
    \/ UserEvent
    \/ Response
    \/ \E named \in BOOLEAN : TimerFire(named)

Spec == Init /\ [][Next]_vars

\* ---- properties -------------------------------------------------------------------
\* C1: whenever no handler is suspended at an await, every active control belongs
\* to at least one active capability.
C1_ControlsWithinActiveCapabilities ==
    NoTasks => activeControls \subseteq ControlsOf(activeCapabilities)

\* C2: toggleCapability(c) on a capability of the tree deactivates c and removes
\* all of c's controls when c was active, activates c and adds all of c's controls
\* when it was not, and leaves the membership of every other capability alone;
\* with no capability_id it changes neither set, starts no metrics recompute and
\* schedules no auto-save.
C2_ToggleCapability ==
    [][\A cap \in Caps \cup {InvalidCap} : ToggleCapability(cap) =>
          IF cap = InvalidCap
          THEN /\ activeCapabilities' = activeCapabilities
               /\ activeControls' = activeControls
               /\ tasks' = tasks
               /\ autoSaveTimer' = autoSaveTimer /\ staleTimers' = staleTimers
               /\ saveStatus' = saveStatus
          ELSE /\ IF cap \in activeCapabilities
                  THEN cap \notin activeCapabilities' /\ activeControls' \cap Tree[cap] = {}
                  ELSE cap \in activeCapabilities' /\ Tree[cap] \subseteq activeControls'
               /\ \A other \in Caps \ {cap} :
                     (other \in activeCapabilities') = (other \in activeCapabilities)
      ]_vars

\* C2 witness: capability A, which shares control c2 with the active capability B,
\* has just been deactivated, and the recompute for the new selection is in flight.
C2_Witness ==
    /\ activeCapabilities = {"B"}
    /\ activeControls = {}
    /\ \E s \in Slots : /\ tasks[s].op = "toggleCapability"
                        /\ tasks[s].req = AnalysisReq({"B"}, {})

\* C3: the control toggle whose owning capability is inactive changes neither set,
\* starts no metrics recompute and schedules no auto-save; with the owning
\* capability active it flips exactly that control and nothing else.
C3_ToggleControl ==
    [][\A cap \in Caps : \A ctrl \in Tree[cap] : ToggleControl(ctrl, cap) =>
          /\ activeCapabilities' = activeCapabilities
          /\ IF cap \notin activeCapabilities
             THEN /\ activeControls' = activeControls
                  /\ tasks' = tasks
                  /\ autoSaveTimer' = autoSaveTimer /\ staleTimers' = staleTimers
                  /\ saveStatus' = saveStatus
             ELSE /\ (ctrl \in activeControls') = (ctrl \notin activeControls)
                  /\ activeControls' \ {ctrl} = activeControls \ {ctrl}
      ]_vars

\* C3 witness: control c1 of the active capability A has been switched on and its
\* recompute is in flight, while capability B, which owns c2, is inactive.
C3_Witness ==
    /\ activeCapabilities = {"A", "C"}
    /\ activeControls = {"c1"}
    /\ \E s \in Slots : /\ tasks[s].op = "toggleControl"
                        /\ tasks[s].req = AnalysisReq({"A", "C"}, {"c1"})

\* A step that called persistDraft() on the current selection: the draft slot
\* holds it when localStorage took the write, and is as before when it threw.
DraftPersistedStep ==
    \/ /\ saveStatus' = "saved"
       /\ localStorage' = [localStorage EXCEPT ![draftUserId] =
                              DraftOf(activeCapabilities, activeControls)]
    \/ /\ saveStatus' = "error"
       /\ localStorage' = localStorage

\* A step that sent exactly one scenario update, to the bound scenario, carrying
\* serializeSelections() of the current selection.
UpdateSentStep ==
    \E s \in Slots :
        /\ tasks[s] = Idle
        /\ tasks' = [tasks EXCEPT ![s] =
              Task("save", "put", smCurrentScenarioId, "none", FALSE,
                   UpdateReq(treeData, activeCapabilities, activeControls))]

\* C4 as stated: while no scenario is bound, save() called directly and the
\* auto-save timer alike send no update, write the selection to the draft slot and
\* report a warning.
C4_AsStated ==
    [][((SaveScenario \/ \E named \in BOOLEAN : TimerFire(named)) /\ ~Bound) =>
          /\ tasks' = tasks /\ server' = server
          /\ DraftPersistedStep
          /\ statusType' = "warning"
      ]_vars

\* C4 amended: save() called while no scenario is bound sends no update, calls
\* persistDraft() on the current selection and reports a warning; the auto-save
\* timer firing while no scenario is bound does not go through save(): it sends no
\* update, calls persistDraft() and reports no status message.
C4_SaveWhileUnbound ==
    [][/\ (SaveScenario /\ ~Bound) =>
             /\ tasks' = tasks /\ server' = server
             /\ DraftPersistedStep
             /\ statusType' = "warning"
       /\ ((\E named \in BOOLEAN : TimerFire(named)) /\ ~Bound) =>
             /\ tasks' = tasks /\ server' = server
             /\ DraftPersistedStep
             /\ statusType' = statusType
      ]_vars

\* C4 witness: the tab was opened and save() called with no scenario bound: the
\* warning is up and the draft slot holds the selection.
C4_Witness ==
    /\ ~Bound
    /\ ops = 2
    /\ activeCapabilities = Caps
    /\ statusType = "warning"
    /\ saveStatus = "saved"
    /\ localStorage[draftUserId] = DraftOf(Caps, {})

\* C5: when the auto-save timer fires with a scenario bound, exactly one update
\* goes to the bound scenario_id with serializeSelections() of the selection at that
\* moment and the draft is not written; with no scenario bound, persistDraft() runs
\* and no update is sent.
C5_TimerTarget ==
    [][\A named \in BOOLEAN : TimerFire(named) =>
          IF Bound
          THEN UpdateSentStep /\ localStorage' = localStorage
          ELSE tasks' = tasks /\ DraftPersistedStep
      ]_vars

\* C5 witness: after one control was switched off in the bound scenario the timer
\* has fired, and the update for the bound scenario is in flight.
C5_Witness ==
    /\ Bound
    /\ ops = 2
    /\ autoSaveTimer = "fired"
    /\ \E s \in Slots :
          /\ tasks[s].op = "save" /\ tasks[s].sid = smCurrentScenarioId
          /\ tasks[s].req = UpdateReq(treeData, activeCapabilities, activeControls)
          /\ tasks[s].req.body.ctl_active # tasks[s].req.body.ctl_ids

\* The auto-save timers that are pending
PendingTimers == staleTimers + (IF autoSaveTimer = "pending" THEN 1 ELSE 0)

\* C6: at most one auto-save timer is pending; a mutation that schedules its
\* auto-save leaves exactly one pending timer, the new one, so a replaced timer
\* never fires; the timer that fires is the last one scheduled, leaves none pending
\* and saves the selection as it is at that moment.
C6_Debounce ==
    /\ [](PendingTimers <= 1)
    /\ [][/\ (\E s \in Slots, ok \in BOOLEAN : MutationRecalcDone(s, ok)) =>
                autoSaveTimer' = "pending" /\ PendingTimers' = 1
          /\ \A named \in BOOLEAN : TimerFire(named) =>
                /\ named
                /\ PendingTimers' = 0
                /\ IF Bound THEN UpdateSentStep ELSE DraftPersistedStep
         ]_vars

\* C6 witness: two mutations in a row (capability B off, then control c1 on) have
\* each scheduled the auto-save, and one timer is pending.
C6_Witness ==
    /\ NoTasks
    /\ autoSaveTimer = "pending"
    /\ PendingTimers = 1
    /\ activeCapabilities = {"A", "C"}
    /\ activeControls = {"c1"}
    /\ \A k \in DraftKeys : ~localStorage[k].present

\* The controls a loaded scenario stands for: its active control_selections, or,
\* stored without control_selections, every control of its active capabilities in
\* the capability tree the client holds.
ScenarioControls(data, tree) ==
    IF data.ctl_ids # {} THEN data.ctl_active
    ELSE IF tree = "loaded" THEN UNION {Tree[c] : c \in data.sel_active}
    ELSE {}

LoadNullStep ==
    \/ LoadScenario(NoId) /\ userId # NoUser
    \/ \E s \in Slots : tasks[s].op = "load" /\ tasks[s].sid = NoId /\ LoadUserDone(s, TRUE)

\* C8: loadScenario(null) unbinds the session, leaves activeCapabilities and
\* activeControls empty and issues a metrics recompute for the empty selection; no
\* scenario fetch is ever sent for it.
C8_LoadNull ==
    /\ [](\A s \in Slots : tasks[s].pc = "get" => tasks[s].sid # NoId)
    /\ [][LoadNullStep =>
             /\ ~Bound' /\ currentScenarioId' = NoId
             /\ activeCapabilities' = {} /\ activeControls' = {}
             /\ \E s \in Slots : /\ tasks'[s] # tasks[s]
                                 /\ tasks'[s].op = "load"
                                 /\ tasks'[s].pc = "recalcNull"
                                 /\ tasks'[s].req = AnalysisReq({}, {})
         ]_vars

\* C9: when the server has accepted the DELETE of the bound scenario and the list
\* refresh that follows it, deleteScenario empties activeCapabilities, and when it
\* ends, with or without a tree to draw, no scenario is bound and the draft slot
\* is empty.
C9_DeleteBound ==
    [][\A s \in Slots :
          /\ DeleteListDone(s, TRUE) => activeCapabilities' = {}
          /\ (/\ tasks[s].op = "delete"
              /\ tasks'[s] = Idle
              /\ DeleteListDone(s, TRUE) \/ \E ok \in BOOLEAN : DeleteRecalcDone(s, ok)) =>
                /\ ~Bound'
                /\ ~localStorage'[draftUserId].present
      ]_vars

\* C10: the metrics recompute that a successful deleteScenario issues is for the
\* empty selection: no capability_ids and no control_ids.
C10_DeleteClearsControls ==
    \A s \in Slots :
        (tasks[s].op = "delete" /\ tasks[s].pc = "recalc") =>
            /\ tasks[s].req.capability_ids = {}
            /\ ~tasks[s].req.has_control_ids

\* A step in which a request to the scenario service, made by load, save, create
\* or delete, comes back failed
ScenarioRequestFailed(s) ==
    \/ LoadGetDone(s, FALSE)
    \/ SaveDone(s, FALSE)
    \/ CreatePostDone(s, FALSE) \/ CreateListDone(s, FALSE)
    \/ SaveAsPutDone(s, FALSE) \/ SaveAsListDone(s, FALSE)
    \/ DeleteDone(s, FALSE) \/ DeleteListDone(s, FALSE)

\* A step of load, save, create or delete that comes before the answer to its
\* last scenario-service request
ScenarioRequestPending(s) ==
    \/ \E id \in ScenarioIds : LoadScenario(id)
    \/ \E ok \in BOOLEAN : tasks[s].sid # NoId /\ LoadUserDone(s, ok)
    \/ SaveScenario /\ Bound
    \/ \E blank \in BOOLEAN : CreateNewScenario(blank) \/ SaveAsScenario(blank)
    \/ \E ok, blank \in BOOLEAN : CreateUserDone(s, ok, blank)
    \/ CreatePostDone(s, TRUE) \/ CreateListDone(s, TRUE)
    \/ SaveAsPutDone(s, TRUE) \/ SaveAsListDone(s, TRUE)
    \/ DeleteScenario \/ DeleteDone(s, TRUE)

AnalysisPcs == {"recalc", "recalcNull", "initRecalc", "restoreRecalc"}

\* A step in which the handler in slot s calls recalculateMetrics
AnalysisIssued(s) == tasks'[s] # tasks[s] /\ tasks'[s].pc \in AnalysisPcs

\* A capability-analysis payload for caps without a control_ids field
OmittedControlsReq(caps) == [NoReq EXCEPT !.capability_ids = caps]

\* C12: a metrics request made with at least one capability active and
\* activeControls empty differs from the request for the same capabilities that
\* has no control_ids field.
C12_EmptyControlsDistinct ==
    [][\A s \in Slots :
          (AnalysisIssued(s) /\ activeCapabilities' # {} /\ activeControls' = {}) =>
              tasks'[s].req # OmittedControlsReq(activeCapabilities')]_vars

\* C13: every metrics request carries capability_ids equal to activeCapabilities,
\* also when that is empty, and carries control_ids exactly when activeControls is
\* non-empty, and then equal to it.
C13_AnalysisPayload ==
    [][\A s \in Slots :
          AnalysisIssued(s) =>
              /\ tasks'[s].req.capability_ids = activeCapabilities'
              /\ tasks'[s].req.has_control_ids = (activeControls' # {})
              /\ tasks'[s].req.has_control_ids =>
                     tasks'[s].req.control_ids = activeControls'
              /\ tasks'[s].req.body = NoSelections]_vars

\* C13 witness: two metrics requests are in flight, one with control_ids and one
\* with an empty capability_ids and no control_ids.
C13_Witness ==
    \E s, t \in Slots :
        /\ tasks[s].pc \in AnalysisPcs /\ tasks[t].pc \in AnalysisPcs
        /\ tasks[s].req.capability_ids # {} /\ tasks[s].req.has_control_ids
        /\ tasks[s].req.control_ids # {}
        /\ tasks[t].req.capability_ids = {} /\ ~tasks[t].req.has_control_ids

\* A step in which the handler in slot s learns that its capability-analysis
\* request has failed
AnalysisFailed(s) ==
    \/ MutationRecalcDone(s, FALSE) \/ LoadRecalcDone(s, FALSE) \/ DeleteRecalcDone(s, FALSE)
    \/ RestoreRecalcDone(s, FALSE) \/ \E restore \in BOOLEAN : InitRecalcDone(s, FALSE, restore)

\* C14: the step in which a capability-analysis request fails leaves the remembered
\* metric values as they were, and the handler that asked goes on as after an
\* answer: a toggle, activateAll or clearAll schedules its auto-save and ends, a
\* load ends with its success status, a delete ends unbound with its success status.
C14_AnalysisFailure ==
    [][\A s \in Slots :
          /\ AnalysisFailed(s) => previousMetrics' = previousMetrics
          /\ MutationRecalcDone(s, FALSE) =>
                /\ tasks'[s] = Idle
                /\ autoSaveTimer' = "pending" /\ saveStatus' = "unsaved"
          /\ LoadRecalcDone(s, FALSE) =>
                /\ tasks'[s] = Idle
                /\ tasks[s].pc = "recalc" => statusType' = "success"
          /\ DeleteRecalcDone(s, FALSE) =>
                /\ tasks'[s] = Idle
                /\ statusType' = "success" /\ ~Bound' /\ currentScenarioId' = NoId
      ]_vars

\* C14 witness: after startup and one mutation nothing is outstanding, the auto-save
\* is scheduled, and the remembered metrics are still those of the empty selection
\* although controls are active.
C14_Witness ==
    /\ NoTasks /\ ops = 2
    /\ autoSaveTimer = "pending"
    /\ ControlsOf(activeCapabilities) # {}
    /\ previousMetrics = Analysis(AnalysisReq({}, {}))

\* C15: a capability is inactive iff it is not in activeCapabilities, fully-active
\* iff it is active, has a control and all its controls are in activeControls, and
\* partially-active in every other active case (no controls, or a control missing).
C15_ComputeStatus ==
    \A cap \in Caps :
        LET st == ComputeStatus(cap, activeCapabilities, activeControls)
            full == /\ cap \in activeCapabilities
                    /\ Tree[cap] # {} /\ Tree[cap] \subseteq activeControls
        IN /\ st \in {"inactive", "fully-active", "partially-active"}
           /\ st = "inactive" <=> cap \notin activeCapabilities
           /\ st = "fully-active" <=> full
           /\ st = "partially-active" <=> (cap \in activeCapabilities /\ ~full)

\* C15 witness: one capability of each status, the partial one lacking a control.
C15_Witness ==
    /\ ComputeStatus("A", activeCapabilities, activeControls) = "partially-active"
    /\ ComputeStatus("B", activeCapabilities, activeControls) = "fully-active"
    /\ ComputeStatus("C", activeCapabilities, activeControls) = "inactive"
    /\ "c1" \notin activeControls

\* C16: with the tree loaded, the selections array has one entry per capability of
\* the tree, whatever is active, and each entry's is_active is the capability's
\* membership in activeCapabilities; the request body lists the same.
C16_SelectionsComplete ==
    treeData = "loaded" =>
        LET sels == CapabilitySelections(treeData, activeCapabilities)
            body == SerializeSelections(treeData, activeCapabilities, activeControls)
        IN /\ Len(sels) = Len(TreeData)
           /\ \A cap \in Caps :
                 /\ Cardinality({i \in DOMAIN sels : sels[i].capability_id = cap}) = 1
                 /\ \A i \in DOMAIN sels :
                       sels[i].capability_id = cap =>
                           sels[i].is_active = (cap \in activeCapabilities)
           /\ body.sel_ids = {sels[i].capability_id : i \in DOMAIN sels}
           /\ body.sel_active = {sels[i].capability_id : i \in {j \in DOMAIN sels : sels[j].is_active}}

\* C16 witness: the tree is loaded and some but not all capabilities are active.
C16_Witness ==
    /\ treeData = "loaded"
    /\ activeCapabilities # {} /\ activeCapabilities # Caps
    /\ activeCapabilities \subseteq Caps

\* C17: whatever the order in which the active capabilities are visited, the
\* control_selections array has exactly one entry for each control under an active
\* capability and none for any other control, and the entry's is_active is the
\* control's membership in activeControls; the request body lists the same.
C17_ControlSelections ==
    treeData = "loaded" =>
        \A order \in Orders(activeCapabilities) :
            LET cs == ControlSelections(treeData, order, activeControls)
                body == SerializeControlSelections(treeData, activeCapabilities, activeControls)
            IN /\ \A c \in Ctrls :
                     Cardinality({i \in DOMAIN cs : cs[i].control_id = c}) =
                         IF c \in ControlsOf(activeCapabilities) THEN 1 ELSE 0
               /\ \A i \in DOMAIN cs :
                     /\ cs[i].control_id \in Ctrls
                     /\ cs[i].is_active = (cs[i].control_id \in activeControls)
               /\ body.ctl_ids = {cs[i].control_id : i \in DOMAIN cs}
               /\ body.ctl_active =
                     {cs[i].control_id : i \in {j \in DOMAIN cs : cs[j].is_active}}

\* C17 witness: both capabilities that share control c2 are active and c2 is on,
\* while c1 is off.
C17_Witness ==
    /\ treeData = "loaded"
    /\ {"A", "B"} \subseteq activeCapabilities
    /\ "c2" \in activeControls /\ "c1" \notin activeControls

\* C18: activateAll leaves every capability of the tree active and every control
\* of every capability in activeControls, so that each capability with a control
\* is fully-active and each capability without one is partially-active; clearAll
\* leaves both sets empty.
C18_ActivateAllClearAll ==
    [][/\ ActivateAll =>
             /\ activeCapabilities' = Caps
             /\ \A cap \in Caps : Tree[cap] \subseteq activeControls'
             /\ \A cap \in Caps :
                   ComputeStatus(cap, activeCapabilities', activeControls') =
                       IF Tree[cap] # {} THEN "fully-active" ELSE "partially-active"
       /\ ClearAll => activeCapabilities' = {} /\ activeControls' = {}
      ]_vars

\* C18 witness: activateAll has run from a partial selection and waits for its
\* metrics; every capability is active, the one without controls partially.
C18_Witness ==
    /\ \E s \in Slots : tasks[s].op = "activateAll" /\ tasks[s].pc = "recalc"
    /\ activeCapabilities = Caps /\ activeControls = Ctrls
    /\ ComputeStatus("C", activeCapabilities, activeControls) = "partially-active"
    /\ ComputeStatus("A", activeCapabilities, activeControls) = "fully-active"

\* A step that changes the selection by toggleCapability, the control toggle,
\* activateAll or clearAll
MutationStep ==
    \/ \E cap \in Caps : ToggleCapability(cap)
    \/ \E cap \in Caps : \E ctrl \in Tree[cap] :
          ToggleControl(ctrl, cap) /\ ControlToggleAllowed(cap, activeCapabilities)
    \/ ActivateAll
    \/ ClearAll

\* C19: every mutation of the selection issues, in the same handler, a metrics
\* request for the mutated selection without touching the auto-save timer; the
\* answer to that request, good or bad, schedules the auto-save, and nothing else
\* of a mutation does.
C19_MutationRecomputeAutoSave ==
    [][/\ MutationStep =>
             /\ \E s \in Slots :
                   /\ AnalysisIssued(s)
                   /\ tasks'[s].req = AnalysisReq(activeCapabilities', activeControls')
             /\ UNCHANGED timerVars
       /\ \A s \in Slots, ok \in BOOLEAN :
             MutationRecalcDone(s, ok) => autoSaveTimer' = "pending" /\ tasks'[s] = Idle
      ]_vars

\* The scenarios the data service holds as default, and the first of them
StoredDefaults == {i \in ScenarioIds : server[i].state = "live" /\ server[i].is_default}
FirstDefault == CHOOSE i \in StoredDefaults : \A j \in StoredDefaults : i <= j

\* The selection a stored scenario stands for
AppliedSelection(id) ==
    <<server[id].data.sel_active, ScenarioControls(server[id].data, treeData)>>

\* C20: startup, step by step and as a whole.  When the scenario list holds a
\* default scenario, startup loads it, and the answer binds it and applies its
\* selections.  When it holds none, startup empties activeCapabilities and binds
\* nothing; then an existing draft whose restore the user accepts replaces both
\* sets by the draft's, and otherwise selection and stored drafts are left as they
\* are.  A startup that ran alone and without an error ends bound to the default
\* with its selections, or unbound with an empty selection.
C20_Startup ==
    /\ [](/\ ops = 1 /\ NoTasks /\ scenariosInitialized /\ statusType # "error"
          => IF StoredDefaults # {}
             THEN /\ Bound
                  /\ smCurrentScenarioId = FirstDefault /\ currentScenarioId = FirstDefault
                  /\ selVars = AppliedSelection(FirstDefault)
             ELSE /\ ~Bound /\ currentScenarioId = NoId
                  /\ activeCapabilities = {} /\ activeControls = {}
                  /\ \A k \in DraftKeys : localStorage[k] = NoDraft)
    /\ [][\A s \in Slots :
            /\ (InitListDone(s, TRUE) /\ StoredDefaults # {}) =>
                  /\ tasks'[s].op = "load" /\ tasks'[s].pc = "get"
                  /\ tasks'[s].sid = FirstDefault /\ tasks'[s].ret = "init"
            /\ (LoadGetDone(s, TRUE) /\ tasks[s].ret = "init") =>
                  /\ Bound'
                  /\ smCurrentScenarioId' = tasks[s].sid /\ currentScenarioId' = tasks[s].sid
                  /\ selVars' = AppliedSelection(tasks[s].sid)
            /\ (InitListDone(s, TRUE) /\ StoredDefaults = {}) =>
                  /\ activeCapabilities' = {}
                  /\ tasks'[s].pc = "initRecalc"
                  /\ UNCHANGED <<bindVars, localStorage>>
            /\ \A ok, restore \in BOOLEAN :
                  InitRecalcDone(s, ok, restore) =>
                     LET draft == localStorage[draftUserId]
                     IN IF draft.present /\ ~Bound /\ restore
                        THEN /\ activeCapabilities' = draft.activeCapabilityIds
                             /\ activeControls' = draft.activeControlIds
                             /\ UNCHANGED <<bindVars, localStorage>>
                        ELSE /\ UNCHANGED <<selVars, bindVars, localStorage>>
                             /\ scenariosInitialized' /\ tasks'[s] = Idle
            /\ \A ok \in BOOLEAN :
                  RestoreRecalcDone(s, ok) =>
                     /\ UNCHANGED <<selVars, bindVars, localStorage>>
                     /\ scenariosInitialized' /\ tasks'[s] = Idle
         ]_vars

\* C20 witness: startup found no default scenario, the user accepted the restore
\* of a draft with active capabilities, and the sets are the draft's.
C20_Witness ==
    \E s \in Slots :
        /\ tasks[s].op = "render" /\ tasks[s].pc = "restoreRecalc"
        /\ ~Bound /\ StoredDefaults = {}
        /\ localStorage[draftUserId].present
        /\ localStorage[draftUserId].activeCapabilityIds # {}
        /\ activeCapabilities = localStorage[draftUserId].activeCapabilityIds
        /\ activeControls = localStorage[draftUserId].activeControlIds

\* The step in which createNewScenario (op = "createNew") or saveAsScenario
\* (op = "saveAs"), back from the loadScenario it ends with, reports its success
ReportsSuccess(s, op) ==
    /\ tasks[s].op = "load" /\ tasks[s].ret = op
    /\ tasks'[s] = Idle
    /\ statusType' = "success"

\* C21: when createNew reports success, the session is bound to the scenario it
\* created, the selection is the one stored in that scenario and the draft slot is
\* empty; a blank or cancelled name sends no request and changes nothing.
C21_CreateNew ==
    [][/\ \A s \in Slots :
             ReportsSuccess(s, "createNew") =>
                 /\ Bound'
                 /\ smCurrentScenarioId' = tasks[s].sid /\ currentScenarioId' = tasks[s].sid
                 /\ server[tasks[s].sid].state = "live" =>
                        selVars' = AppliedSelection(tasks[s].sid)
                 /\ localStorage'[draftUserId] = NoDraft
       /\ CreateNewScenario(TRUE) =>
             /\ tasks' = tasks
             /\ UNCHANGED <<selVars, bindVars, localStorage, timerVars, uiVars, server>>
      ]_vars

\* C22: when saveAs reports success, the scenario it created holds the
\* serialization of the in-memory selection, the session is bound to it and the
\* draft slot is empty; the update was sent after the creation was answered and
\* the load was started after the update was answered.
C22_SaveAs ==
    [][\A s \in Slots :
          /\ ReportsSuccess(s, "saveAs") =>
                /\ Bound'
                /\ smCurrentScenarioId' = tasks[s].sid /\ currentScenarioId' = tasks[s].sid
                /\ server'[tasks[s].sid].state = "live"
                /\ server'[tasks[s].sid].data =
                       SerializeSelections(treeData', activeCapabilities', activeControls')
                /\ localStorage'[draftUserId] = NoDraft
          /\ (tasks[s].op = "saveAs" /\ tasks'[s].pc = "put" /\ tasks[s].pc # "put") =>
                tasks[s].pc = "list" /\ server[tasks[s].sid].state = "live"
          /\ (tasks'[s].ret = "saveAs" /\ tasks[s].ret # "saveAs") =>
                tasks[s].op = "saveAs" /\ tasks[s].pc = "list2"
      ]_vars

\* The step in which a loadScenario called from the selector or from startup
\* reports its success
LoadSucceeded(s) ==
    /\ tasks[s].op = "load" /\ tasks[s].pc = "recalc" /\ tasks[s].ret \in {"none", "init"}
    /\ \E ok \in BOOLEAN : LoadRecalcDone(s, ok)

\* C23: the draft slot is empty after createNew or saveAs has reported success,
\* after a load from the selector or at startup has succeeded, and after a delete
\* of the bound scenario has succeeded.
C23_DraftCleared ==
    [][\A s \in Slots :
          (\/ ReportsSuccess(s, "createNew") \/ ReportsSuccess(s, "saveAs")
           \/ LoadSucceeded(s)
           \/ \E ok \in BOOLEAN : DeleteRecalcDone(s, ok))
          => localStorage'[draftUserId] = NoDraft]_vars

\* C24: while a scenario is bound, neither the unload / visibility-hidden
\* handler nor the auto-save timer writes the draft slot.
C24_NoDraftWhileBound ==
    [][(Bound /\ (PageHidden \/ \E named \in BOOLEAN : TimerFire(named)))
          => localStorage' = localStorage]_vars

\* ---- DraftManager: the stored text of a draft ---------------------------------
\* A slot of window.localStorage as DraftManager sees it.  "draft" is the JSON
\* text persistDraft writes (two arrays of ids; updatedAt is never read back),
\* "object" a JSON text without the two arrays, "garbage" a text JSON.parse
\* rejects, "blocked" a storage whose every access throws.
ItemKinds == {"missing", "draft", "object", "garbage", "blocked"}
RawItem(kind, caps, ctrls) == [kind |-> kind, caps |-> caps, ctrls |-> ctrls]
MissingItem == RawItem("missing", <<>>, <<>>)
BlockedItem == RawItem("blocked", <<>>, <<>>)
NullDraft == [isNull |-> TRUE, activeCapabilityIds |-> <<>>, activeControlIds |-> <<>>]

\* new Set(array)
SetOf(arr) == {arr[i] : i \in DOMAIN arr}

\* JSON.stringify of { activeCapabilityIds, activeControlIds, updatedAt }
Stringify(data) == RawItem("draft", data.activeCapabilityIds, data.activeControlIds)

\* The result of DraftManager.restoreDraft(): null, or the two id arrays
\* ((data && data.x) || [] for a JSON text without them)
DraftManagerRestoreDraftSwapped(storage, key) ==
    LET raw == storage[key] IN
    IF raw.kind \in {"blocked", "missing", "garbage"} THEN NullDraft
    ELSE [isNull |-> FALSE, activeCapabilityIds |-> raw.ctrls, activeControlIds |-> raw.caps]
DraftManagerRestoreDraft(storage, key) ==
    LET raw == storage[key] IN
    IF raw.kind \in {"blocked", "missing", "garbage"} THEN NullDraft
    ELSE [isNull |-> FALSE, activeCapabilityIds |-> raw.caps, activeControlIds |-> raw.ctrls]

\* DraftManager.persistDraft(caps, ctrls): capsArr and ctrlsArr are Array.from of
\* the two sets; setItem throws when the storage is blocked or full (~writeOk)
DraftManagerPersistDraftTrue(storage, key, capsArr, ctrlsArr, writeOk) ==
    IF storage[key].kind = "blocked" \/ ~writeOk
    THEN [storage |-> storage, result |-> TRUE]
    ELSE [storage |-> [storage EXCEPT ![key] =
                          Stringify([activeCapabilityIds |-> capsArr, activeControlIds |-> ctrlsArr])],
          result |-> TRUE]
DraftManagerPersistDraft(storage, key, capsArr, ctrlsArr, writeOk) ==
    IF storage[key].kind = "blocked" \/ ~writeOk
    THEN [storage |-> storage, result |-> FALSE]
    ELSE [storage |-> [storage EXCEPT ![key] =
                          Stringify([activeCapabilityIds |-> capsArr, activeControlIds |-> ctrlsArr])],
          result |-> TRUE]

\* DraftManager.clearDraft(): removeItem, errors ignored
DraftManagerClearDraft(storage, key) ==
    IF storage[key].kind = "blocked" THEN storage ELSE [storage EXCEPT ![key] = MissingItem]

draftFrame == <<treeData, treeGroup, userId, scenarioManager, smCurrentScenarioId,
                currentScenarioId, scenariosInitialized, draftUserId, autoSaveTimer,
                staleTimers, server, metricVars, tasks, ops>>

\* Every pair of id sets, either draft user, an empty or a blocked storage
InitDraft ==
    /\ treeData = "loaded"
    /\ treeGroup = TRUE
    /\ activeCapabilities \in SUBSET Caps
    /\ activeControls \in SUBSET Ctrls
    /\ userId = NoUser
    /\ scenarioManager = FALSE
    /\ smCurrentScenarioId = NoId
    /\ currentScenarioId = NoId
    /\ scenariosInitialized = TRUE
    /\ draftUserId \in DraftKeys
    /\ \E blocked \in BOOLEAN :
         localStorage = [k \in DraftKeys |-> IF blocked THEN BlockedItem ELSE MissingItem]
    /\ autoSaveTimer = "null"
    /\ staleTimers = 0
    /\ statusType = "none"
    /\ statusText = NoText
    /\ saveStatus = "none"
    /\ server = [i \in ScenarioIds |-> NoScenario]
    /\ previousMetrics = NoMetrics
    /\ metricSignals = NoSignals
    /\ tasks = [s \in Slots |-> Idle]
    /\ ops = 0

\* DashboardScenarios.persistDraft()
PersistDraftText(capsArr, ctrlsArr, writeOk) ==
    /\ capsArr \in Orders(activeCapabilities)
    /\ ctrlsArr \in Orders(activeControls)
    /\ LET r == DraftManagerPersistDraft(localStorage, draftUserId, capsArr, ctrlsArr, writeOk) IN
         /\ localStorage' = r.storage
         /\ saveStatus' = IF r.result THEN "saved" ELSE "error"
    /\ UNCHANGED <<selVars, statusType, draftFrame>>
    /\ TextFollowsType

\* DashboardScenarios.saveScenario() with no bound scenario: the warning, then
\* persistDraft(), then return
SaveScenarioText(capsArr, ctrlsArr, writeOk) ==
    /\ ~Bound
    /\ capsArr \in Orders(activeCapabilities)
    /\ ctrlsArr \in Orders(activeControls)
    /\ statusType' = "warning"
    /\ LET r == DraftManagerPersistDraft(localStorage, draftUserId, capsArr, ctrlsArr, writeOk) IN
         /\ localStorage' = r.storage
         /\ saveStatus' = IF r.result THEN "saved" ELSE "error"
    /\ UNCHANGED <<selVars, draftFrame>>
    /\ TextFollowsType

\* DashboardScenarios.restoreDraft() up to its render: a null draft returns, any
\* other replaces both sets
RestoreDraftText ==
    /\ LET d == DraftManagerRestoreDraft(localStorage, draftUserId) IN
         IF d.isNull
         THEN UNCHANGED selVars
         ELSE /\ activeCapabilities' = SetOf(d.activeCapabilityIds)
              /\ activeControls' = SetOf(d.activeControlIds)
    /\ UNCHANGED <<localStorage, uiVars, draftFrame>>
    /\ TextFollowsType

\* DashboardScenarios.clearDraft()
ClearDraftText ==
    /\ localStorage' = DraftManagerClearDraft(localStorage, draftUserId)
    /\ UNCHANGED <<selVars, uiVars, draftFrame>>
    /\ TextFollowsType

\* The user changes the selection
SelectText(caps, ctrls) ==
    /\ activeCapabilities' = caps
    /\ activeControls' = ctrls
    /\ UNCHANGED <<localStorage, uiVars, draftFrame>>
    /\ TextFollowsType

\* Another writer of the origin leaves a text in the slot that is not a draft
ForeignText(kind) ==
    /\ localStorage[draftUserId].kind # "blocked"
    /\ localStorage' = [localStorage EXCEPT ![draftUserId] = RawItem(kind, <<>>, <<>>)]
    /\ UNCHANGED <<selVars, uiVars, draftFrame>>
    /\ TextFollowsType

NextDraft ==
    \/ \E capsArr \in Orders(activeCapabilities), ctrlsArr \in Orders(activeControls),
          writeOk \in BOOLEAN : PersistDraftText(capsArr, ctrlsArr, writeOk)
    \/ \E capsArr \in Orders(activeCapabilities), ctrlsArr \in Orders(activeControls),
          writeOk \in BOOLEAN : SaveScenarioText(capsArr, ctrlsArr, writeOk)
    \/ RestoreDraftText
    \/ ClearDraftText
    \/ \E caps \in SUBSET Caps, ctrls \in SUBSET Ctrls : SelectText(caps, ctrls)
    \/ \E kind \in {"object", "garbage"} : ForeignText(kind)

SpecDraft == InitDraft /\ [][NextDraft]_vars

\* Steps in which the storage accepted a write, and the sets a restore gives
PersistAccepted ==
    /\ saveStatus' = "saved"
    /\ \E capsArr \in Orders(activeCapabilities), ctrlsArr \in Orders(activeControls) :
         \/ PersistDraftText(capsArr, ctrlsArr, TRUE)
         \/ SaveScenarioText(capsArr, ctrlsArr, TRUE)
RestoredSets(storage, key) ==
    LET d == DraftManagerRestoreDraft(storage, key) IN
    <<SetOf(d.activeCapabilityIds), SetOf(d.activeControlIds)>>
WriteAccepted(writeOk) == writeOk /\ localStorage[draftUserId].kind # "blocked"
\* C26: persistDraft reports a failed write as false (save status "error") and an
\* accepted one as true ("saved"), and a failed write changes neither the slot,
\* the two sets nor the binding, while the unbound saveScenario still shows its
\* warning and returns; restoreDraft is null on a missing, unreadable or
\* unparsable slot and then changes nothing; clearDraft changes only the slot.
C26_DraftFailuresContained ==
    [][ /\ \A capsArr \in Orders(activeCapabilities), ctrlsArr \in Orders(activeControls),
              writeOk \in BOOLEAN :
             (PersistDraftText(capsArr, ctrlsArr, writeOk)
                \/ SaveScenarioText(capsArr, ctrlsArr, writeOk)) =>
               /\ saveStatus' = (IF WriteAccepted(writeOk) THEN "saved" ELSE "error")
               /\ WriteAccepted(writeOk) => localStorage'[draftUserId].kind = "draft"
               /\ ~WriteAccepted(writeOk) => localStorage' = localStorage
               /\ UNCHANGED <<selVars, bindVars>>
               /\ SaveScenarioText(capsArr, ctrlsArr, writeOk) => statusType' = "warning"
        /\ (RestoreDraftText /\ localStorage[draftUserId].kind \in {"missing", "blocked", "garbage"}) =>
               /\ DraftManagerRestoreDraft(localStorage, draftUserId) = NullDraft
               /\ UNCHANGED <<selVars, bindVars, uiVars>>
        /\ ClearDraftText => UNCHANGED <<selVars, bindVars, uiVars>> ]_vars
C26_Witness ==
    /\ saveStatus = "error"
    /\ statusType = "warning"
    /\ localStorage[draftUserId].kind = "draft"
    /\ SetOf(localStorage[draftUserId].caps) # activeCapabilities
    /\ activeControls # {}

\* ---- DashboardMetrics: the metric cards under arbitrary responses -------------
MaxMetric == 2
MetricValues == 0..MaxMetric
Responses == [active_controls : MetricValues, exposed_risks : MetricValues,
              partially_covered_risks : MetricValues, active_risks : MetricValues]

metricsFrame == <<treeData, treeGroup, selVars, bindVars, scenariosInitialized, localStorage,
                  timerVars, uiVars, server, tasks, ops>>

InitMetrics ==
    /\ treeData = "loaded"
    /\ treeGroup = TRUE
    /\ activeCapabilities = {}
    /\ activeControls = {}
    /\ userId = NoUser
    /\ scenarioManager = FALSE
    /\ smCurrentScenarioId = NoId
    /\ currentScenarioId = NoId
    /\ scenariosInitialized = TRUE
    /\ draftUserId = DefaultDraftUser
    /\ localStorage = [k \in DraftKeys |-> NoDraft]
    /\ autoSaveTimer = "null"
    /\ staleTimers = 0
    /\ statusType = "none"
    /\ statusText = NoText
    /\ saveStatus = "none"
    /\ server = [i \in ScenarioIds |-> NoScenario]
    /\ previousMetrics = NoMetrics
    /\ metricSignals = NoSignals
    /\ tasks = [s \in Slots |-> Idle]
    /\ ops = 0

\* recalculateMetrics whose request was answered with metrics
MetricsResponse(metrics) ==
    /\ ShowMetrics(metrics)
    /\ UNCHANGED metricsFrame
    /\ TextFollowsType

\* recalculateMetrics whose request failed: the catch block
MetricsFailure ==
    /\ UNCHANGED metricVars
    /\ UNCHANGED metricsFrame
    /\ TextFollowsType

NextMetrics ==
    \/ \E metrics \in Responses : MetricsResponse(metrics)
    \/ MetricsFailure

SpecMetrics == InitMetrics /\ [][NextMetrics]_vars

\* The change of a field between the remembered values and a response
Delta(field, metrics) == metrics[field] - previousMetrics[field]
PartiallyChanged(metrics) ==
    /\ previousMetrics.partially_covered_risks # NullMetric
    /\ Delta("partially_covered_risks", metrics) # 0

\* C27 (as stated): a changed partially_covered_risks is shown green when it
\* increased while exposed_risks decreased, yellow on every other increase, and
\* green on every decrease.
C27_DecreaseAlwaysGreen ==
    [][\A metrics \in Responses : (MetricsResponse(metrics) /\ PartiallyChanged(metrics)) =>
          metricSignals'.partially_covered_risks =
             IF Delta("partially_covered_risks", metrics) > 0
             THEN IF Delta("exposed_risks", metrics) < 0 THEN "green" ELSE "yellow"
             ELSE "green"]_vars

\* C27 (amended): increases as stated; a decrease is shown green when
\* active_risks increased, yellow when active_risks did not increase and
\* exposed_risks increased, and green otherwise.
C27_PartiallyCoveredColour ==
    [][\A metrics \in Responses : (MetricsResponse(metrics) /\ PartiallyChanged(metrics)) =>
          metricSignals'.partially_covered_risks =
             IF Delta("partially_covered_risks", metrics) > 0
             THEN IF Delta("exposed_risks", metrics) < 0 THEN "green" ELSE "yellow"
             ELSE IF Delta("active_risks", metrics) <= 0 /\ Delta("exposed_risks", metrics) > 0
                  THEN "yellow" ELSE "green"]_vars
\* A yellow signal on a card now showing 0: a decrease shown yellow
C27_Witness ==
    /\ metricSignals.partially_covered_risks = "yellow"
    /\ previousMetrics.partially_covered_risks = 0

\* C28: a changed active_controls is shown green on increase and yellow on
\* decrease, a changed exposed_risks red on increase and green on decrease; the
\* first response and an unchanged value show nothing; after every response the
\* remembered values are the values received.
C28_MetricColours ==
    [][\A metrics \in Responses : MetricsResponse(metrics) =>
          /\ metricSignals'.active_controls =
               IF previousMetrics.active_controls = NullMetric \/ Delta("active_controls", metrics) = 0
               THEN "none"
               ELSE IF Delta("active_controls", metrics) > 0 THEN "green" ELSE "yellow"
          /\ metricSignals'.exposed_risks =
               IF previousMetrics.exposed_risks = NullMetric \/ Delta("exposed_risks", metrics) = 0
               THEN "none"
               ELSE IF Delta("exposed_risks", metrics) > 0 THEN "red" ELSE "green"
          /\ (previousMetrics.partially_covered_risks = NullMetric
                \/ Delta("partially_covered_risks", metrics) = 0)
               => metricSignals'.partially_covered_risks = "none"
          /\ \A field \in DOMAIN metrics : previousMetrics'[field] = metrics[field]]_vars
C28_Witness ==
    /\ metricSignals.active_controls = "yellow"
    /\ metricSignals.exposed_risks = "red"
    /\ previousMetrics.active_controls = 1
    /\ previousMetrics.exposed_risks = 2

\* ---- ScenarioManager: the text of a rejected request -------------------------
\* A string is the sequence of its fragments; " " is a run of white space, every
\* other fragment a run of text without white space at its ends.
RECURSIVE TrimStart(_)
TrimStart(str) == IF str # <<>> /\ Head(str) = " " THEN TrimStart(Tail(str)) ELSE str
RECURSIVE TrimEnd(_)
TrimEnd(str) ==
    IF str # <<>> /\ str[Len(str)] = " " THEN TrimEnd(SubSeq(str, 1, Len(str) - 1)) ELSE str
\* String.prototype.trim
Trim(str) == TrimEnd(TrimStart(str))
\* Array.prototype.join
RECURSIVE Join(_, _)
Join(strs, sep) ==
    IF strs = <<>> THEN <<>>
    ELSE IF Len(strs) = 1 THEN strs[1]
    ELSE strs[1] \o sep \o Join(Tail(strs), sep)

\* A JSON value: absent (undefined), a string, an array of validation entries,
\* or any other value, truthy (an object, true, 5) or falsy (null, false, 0)
JValue(t, str, arr) == [t |-> t, s |-> str, a |-> arr]
JAbsent == JValue("absent", <<>>, <<>>)
JStr(str) == JValue("str", str, <<>>)
JArr(arr) == JValue("arr", <<>>, arr)
JTruthy == JValue("truthy", <<>>, <<>>)
JFalsy == JValue("falsy", <<>>, <<>>)
\* JavaScript truthiness: "" is falsy, " " and [] are truthy
Truthy(v) == v.t \in {"truthy", "arr"} \/ (v.t = "str" /\ v.s # <<>>)

\* `${e.loc?.join('.')}: ${e.msg}`
Entry(hasLoc, loc, msg) == [hasLoc |-> hasLoc, loc |-> loc, msg |-> msg]
RenderEntry(e) ==
    (IF e.hasLoc THEN Join(e.loc, <<".">>) ELSE <<"undefined">>) \o <<": ">> \o e.msg
RenderEntries(arr) == Join([i \in DOMAIN arr |-> RenderEntry(arr[i])], <<"; ">>)

\* ScenarioManager.extractErrorDetail picking the first truthy field whatever its
\* type, an array detail rendered like any other
ExtractErrorDetailUnrendered(status, body) ==
    LET generic == <<"Request failed with status ", status>>
        picked == IF Truthy(body.detail) THEN body.detail
                  ELSE IF Truthy(body.error) THEN body.error ELSE body.message
    IN IF picked.t = "str" /\ Trim(picked.s) # <<>>
       THEN [threw |-> FALSE, value |-> picked.s]
       ELSE [threw |-> FALSE, value |-> generic]

\* ScenarioManager.extractErrorDetail(response): the string returned, or the
\* TypeError of errorDetail.trim() on a value that is not a string (167)
ExtractErrorDetail(status, body) ==
    LET default == JStr(<<"HTTP error! status: ", status>>)
        generic == <<"Request failed with status ", status>>
        TextOr(str) == IF str = <<>> THEN default ELSE JStr(str)
        errorDetail ==
            IF ~body.readable THEN JStr(generic)
            ELSE IF body.raw = <<>> THEN default
            ELSE IF body.json # "object" THEN TextOr(Trim(body.raw))
            ELSE IF Truthy(body.detail)
                 THEN IF body.detail.t = "arr" THEN JStr(RenderEntries(body.detail.a))
                      ELSE body.detail
            ELSE IF Truthy(body.error) THEN body.error
            ELSE IF Truthy(body.message) THEN body.message
            ELSE TextOr(Trim(body.raw))
    IN IF ~Truthy(errorDetail) THEN [threw |-> FALSE, value |-> generic]
       ELSE IF errorDetail.t # "str"
            THEN [threw |-> TRUE, value |-> <<"errorDetail.trim is not a function">>]
       ELSE IF Trim(errorDetail.s) = <<>> THEN [threw |-> FALSE, value |-> generic]
       ELSE [threw |-> FALSE, value |-> errorDetail.s]

\* The message of the error createScenario throws for a request that failed:
\* fetch rejected, or the response was not ok (71-83); every error is rethrown (90)
CreateScenarioErrorPrefixed(response) ==
    IF response.rejected THEN <<"Failed to fetch">>
    ELSE <<"Failed to create scenario: ">> \o ExtractErrorDetail(response.status, response.body).value
CreateScenarioError(response) ==
    IF response.rejected THEN <<"Failed to fetch">>
    ELSE LET detail == ExtractErrorDetail(response.status, response.body) IN
         IF detail.threw THEN detail.value
         ELSE IF response.status = "400" THEN detail.value
         ELSE <<"Failed to create scenario: ">> \o detail.value

\* The same for updateScenario (102-105, 110)
UpdateScenarioError(response) ==
    IF response.rejected THEN <<"Failed to fetch">>
    ELSE LET detail == ExtractErrorDetail(response.status, response.body) IN
         IF detail.threw THEN detail.value
         ELSE <<"Failed to save selections: ">> \o detail.value

\* error.message || fallback, in the catch blocks of createNewScenario (469),
\* saveAsScenario (563-569) and saveScenario (338)
MessageOr(message, fallback) == IF message = <<>> THEN fallback ELSE message

\* The text of the data service's answer to a create with a name the user
\* already has
DuplicateText == <<"Scenario", " ", "name", " ", "already", " ", "exists">>

\* The bodies a failed response can carry
Body(readable, raw, json, detail, error, message) ==
    [readable |-> readable, raw |-> raw, json |-> json,
     detail |-> detail, error |-> error, message |-> message]
TextBody(raw) == Body(TRUE, raw, "invalid", JAbsent, JAbsent, JAbsent)
Entry1 == Entry(TRUE, <<(<<"body">>), (<<"scenario_name">>)>>, <<"field", " ", "required">>)
Entry2 == Entry(FALSE, <<>>, <<"invalid">>)
DetailValues == {JAbsent, JStr(<<>>), JStr(<<" ">>), JStr(<<"detail", " ", "text">>),
                 JStr(DuplicateText),
                 JArr(<<>>), JArr(<<Entry1>>), JArr(<<Entry1, Entry2>>), JTruthy, JFalsy}
ErrorValues == {JAbsent, JStr(<<"error", " ", "text">>), JTruthy}
MessageValues == {JAbsent, JStr(<<"message", " ", "text">>)}
Bodies ==
    {Body(FALSE, <<>>, "invalid", JAbsent, JAbsent, JAbsent)}
      \cup {TextBody(raw) : raw \in {<<>>, <<" ">>, <<" ", "Bad", " ", "Gateway", " ">>}}
      \cup {Body(TRUE, <<"null">>, "scalar", JAbsent, JAbsent, JAbsent)}
      \cup {Body(TRUE, <<"{...}">>, "object", d, e, m) :
              d \in DetailValues, e \in ErrorValues, m \in MessageValues}
Statuses == {"400", "500"}
FailedResponse(rejected, status, body) == [rejected |-> rejected, status |-> status, body |-> body]
FailedResponses ==
    {FailedResponse(TRUE, "0", TextBody(<<>>))}
      \cup {FailedResponse(FALSE, status, body) : status \in Statuses, body \in Bodies}

\* The data service's answer to a create with a name the user already has
DuplicateResponse ==
    FailedResponse(FALSE, "400", Body(TRUE, <<"{...}">>, "object", JStr(DuplicateText), JAbsent, JAbsent))

errorFrame == <<treeData, treeGroup, selVars, bindVars, scenariosInitialized, localStorage,
                timerVars, server, metricVars, ops>>

\* A signed-in page, bound to scenario 1 or unbound, with some selection
InitError ==
    /\ treeData = "loaded"
    /\ treeGroup = TRUE
    /\ activeCapabilities \in {{}, {"A", "B"}}
    /\ activeControls \in {{}, {"c1"}}
    /\ userId = AuthUser
    /\ scenarioManager = TRUE
    /\ smCurrentScenarioId \in {NoId, 1}
    /\ currentScenarioId = smCurrentScenarioId
    /\ scenariosInitialized = TRUE
    /\ draftUserId = AuthUser
    /\ localStorage = [k \in DraftKeys |-> NoDraft]
    /\ autoSaveTimer = "null"
    /\ staleTimers = 0
    /\ statusType = "none"
    /\ statusText = NoText
    /\ saveStatus = "none"
    /\ server = [i \in ScenarioIds |-> IF i = 1 THEN LegacyScenario(FALSE) ELSE NoScenario]
    /\ previousMetrics = NoMetrics
    /\ metricSignals = NoSignals
    /\ tasks = [s \in Slots |-> Idle]
    /\ ops = 0

\* createNewScenario / saveAsScenario up to the POST of createScenario, and
\* saveScenario with a bound scenario up to the PUT of updateScenario
RequestStart(op) ==
    /\ NoTasks
    /\ IF op = "save"
       THEN /\ Bound
            /\ saveStatus' = "saving"
            /\ tasks' = [tasks EXCEPT ![FreeSlot] =
                  Task("save", "put", smCurrentScenarioId, "none", FALSE,
                       UpdateReq(treeData, activeCapabilities, activeControls))]
       ELSE /\ tasks' = [tasks EXCEPT ![FreeSlot] = Task(op, "post", NoId, "none", FALSE, NoReq)]
            /\ UNCHANGED saveStatus
    /\ UNCHANGED <<statusType, statusText, errorFrame>>

\* createScenario threw for the response: the catch block of createNewScenario
\* (467-471) or of saveAsScenario (558-571)
CreateRejected(s, response) ==
    /\ tasks[s].op \in {"createNew", "saveAs"} /\ tasks[s].pc = "post"
    /\ statusType' = "error"
    /\ statusText' = IF tasks[s].op = "createNew"
                     THEN MessageOr(CreateScenarioError(response), <<"Error creating scenario">>)
                     ELSE MessageOr(MessageOr(CreateScenarioError(response), <<"Error">>),
                                    <<"Save As failed">>)
    /\ saveStatus' = IF tasks[s].op = "saveAs" THEN "error" ELSE saveStatus
    /\ tasks' = [tasks EXCEPT ![s] = Idle]
    /\ UNCHANGED errorFrame

\* updateScenario threw for the response: the catch block of saveScenario (335-339)
UpdateRejected(s, response) ==
    /\ tasks[s].op = "save" /\ tasks[s].pc = "put"
    /\ statusType' = "error"
    /\ statusText' = MessageOr(UpdateScenarioError(response), <<"Error saving scenario">>)
    /\ saveStatus' = "error"
    /\ tasks' = [tasks EXCEPT ![s] = Idle]
    /\ UNCHANGED errorFrame

NextError ==
    \/ \E op \in {"createNew", "saveAs", "save"} : RequestStart(op)
    \/ \E s \in Slots, response \in FailedResponses : CreateRejected(s, response)
    \/ \E s \in Slots, response \in FailedResponses : UpdateRejected(s, response)

SpecError == InitError /\ [][NextError]_vars

\* C29: a create answered with the duplicate-name rejection shows, from
\* createNewScenario and from saveAsScenario alike, an error status whose text is
\* exactly the server's text, and changes neither binding nor selection.
C29_DuplicateNameVerbatim ==
    [][\A s \in Slots : CreateRejected(s, DuplicateResponse) =>
          /\ statusType' = "error"
          /\ statusText' = DuplicateText
          /\ UNCHANGED <<selVars, bindVars>>]_vars
C29_Witness ==
    /\ statusType = "error"
    /\ statusText = DuplicateText
    /\ saveStatus = "error"
    /\ Bound
    /\ activeCapabilities = {"A", "B"}
    /\ NoTasks

\* The result a response body calls for, by the precedence detail, error,
\* message, raw text, generic message
NonEmpty(v) == (v.t = "str" /\ v.s # <<>>) \/ (v.t = "arr" /\ v.a # <<>>) \/ v.t = "truthy"
FromField(v) == IF v.t = "arr" THEN RenderEntries(v.a) ELSE v.s
GenericTexts(status) ==
    {<<"Request failed with status ", status>>, <<"HTTP error! status: ", status>>}
ExpectedDetails(status, body) ==
    IF body.readable /\ body.json = "object" /\ NonEmpty(body.detail)
    THEN {FromField(body.detail)}
    ELSE IF body.readable /\ body.json = "object" /\ NonEmpty(body.error)
    THEN {FromField(body.error)}
    ELSE IF body.readable /\ body.json = "object" /\ NonEmpty(body.message)
    THEN {FromField(body.message)}
    ELSE IF body.readable /\ Trim(body.raw) # <<>> THEN {Trim(body.raw)}
    ELSE GenericTexts(status)
\* C30: for every failed response extractErrorDetail returns a non-blank string,
\* taken from detail when detail is non-empty (an array rendered as its entries
\* 'loc-path: msg' joined by '; '), else from error, else from message, else
\* from the raw body text, else the generic message with the status code.
C30_ErrorDetail ==
    [][\A s \in Slots, response \in FailedResponses :
          ((CreateRejected(s, response) \/ UpdateRejected(s, response)) /\ ~response.rejected) =>
             LET detail == ExtractErrorDetail(response.status, response.body) IN
             /\ ~detail.threw
             /\ Trim(detail.value) # <<>>
             /\ detail.value \in ExpectedDetails(response.status, response.body)]_vars

\* C31: when an active capability is toggled off and then on again with no
\* control toggle in between, activeControls is a superset of what it was before
\* the two toggles and activeCapabilities is what it was.
C31_ToggleTwice ==
    [][\A c \in Caps : (ToggleCapability(c) /\ c \in activeCapabilities) =>
          /\ c \notin activeCapabilities'
          /\ activeCapabilities' \cup {c} = activeCapabilities
          /\ activeControls \subseteq CascadeControls(c, c \in activeCapabilities', activeControls')]_vars
\* Both toggles in flight: A was switched off (the older request) and on again
C31_Witness ==
    /\ tasks[1].op = "toggleCapability" /\ tasks[1].req.capability_ids = {"B"}
    /\ tasks[2].op = "toggleCapability" /\ tasks[2].req.capability_ids = {"A", "B"}
    /\ activeCapabilities = {"A", "B"}
    /\ activeControls = {"c1", "c2"}

\* A step in which the capability-analysis request of slot s is answered
AnalysisAnswered(s) ==
    \/ MutationRecalcDone(s, TRUE) \/ LoadRecalcDone(s, TRUE) \/ DeleteRecalcDone(s, TRUE)
    \/ RestoreRecalcDone(s, TRUE) \/ \E restore \in BOOLEAN : InitRecalcDone(s, TRUE, restore)

\* C32: an answer is applied when it arrives, whatever the selection has become
\* and whatever answers were applied before it: the remembered metrics become
\* those computed for the answered request, so the answer to an older request
\* arriving last leaves the metrics of the older selection on display.
C32_AnswersAppliedInArrivalOrder ==
    [][\A s \in Slots : AnalysisAnswered(s) =>
          previousMetrics' = Remembered(Analysis(tasks[s].req))]_vars
\* Nothing is outstanding, both capabilities and both controls are active, and
\* the metrics shown are those of the request of the first toggle (B alone); the
\* yellow and red signals show that they replaced the metrics of the second
\* toggle, whose answer had arrived first
C32_Witness ==
    /\ NoTasks
    /\ activeCapabilities = {"A", "B"}
    /\ activeControls = {"c1", "c2"}
    /\ previousMetrics = Analysis(AnalysisReq({"B"}, {"c2"}))
    /\ previousMetrics # Analysis(AnalysisReq(activeCapabilities, activeControls))
    /\ metricSignals.active_controls = "yellow"
    /\ metricSignals.exposed_risks = "red"

\* ---- auto-save of a bound scenario (scheduleAutoSave, saveScenario, updateScenario)
\* The page after a startup that loaded the default scenario 1 from the stored
\* scenarios: the tree is rendered, the scenario is bound and its selection is
\* applied.
BoundSession(stored) ==
    /\ treeData = "loaded"
    /\ treeGroup = TRUE
    /\ server = stored
    /\ activeCapabilities = Caps \cap server[1].data.sel_active
    /\ activeControls = RestoredControls(server[1].data, treeData, activeCapabilities)
    /\ userId = AuthUser
    /\ scenarioManager = TRUE
    /\ smCurrentScenarioId = 1
    /\ currentScenarioId = 1
    /\ scenariosInitialized = TRUE
    /\ draftUserId = AuthUser
    /\ localStorage = [k \in DraftKeys |-> NoDraft]
    /\ autoSaveTimer = "null"
    /\ staleTimers = 0
    /\ statusType = "success"
    /\ statusText = TypeText(statusType)
    /\ saveStatus = "saved"
    /\ previousMetrics = Remembered(Analysis(AnalysisReq(activeCapabilities, activeControls)))
    /\ metricSignals = NoSignals
    /\ tasks = [s \in Slots |-> Idle]
    /\ ops = 0

\* The user has the default scenario 1 only
InitAutoSave ==
    BoundSession([i \in ScenarioIds |-> IF i = 1 THEN LegacyScenario(TRUE) ELSE NoScenario])

\* The selection handlers
Mutation ==
    \/ \E cap \in Caps \cup {InvalidCap} : ToggleCapability(cap)
    \/ \E cap \in Caps : \E ctrl \in Tree[cap] : ToggleControl(ctrl, cap)
    \/ ActivateAll
    \/ ClearAll

\* The capability-analysis request of a mutation settles
MutationSettles == \E s \in Slots : \E ok \in BOOLEAN : MutationRecalcDone(s, ok)

\* The data service processes an update request and answers it with success
UpdateSucceeds == \E s \in Slots : SaveDone(s, TRUE)

\* A timer callback runs
TimerFires == \E named \in BOOLEAN : TimerFire(named)

\* The scenario stays bound and every update request succeeds: the user only
\* changes the selection.
NextAutoSave ==
    \/ Mutation
    \/ MutationSettles
    \/ UpdateSucceeds
    \/ TimerFires

\* Requests settle and timers fire.
SpecAutoSave ==
    /\ InitAutoSave
    /\ [][NextAutoSave]_vars
    /\ WF_vars(MutationSettles)
    /\ WF_vars(UpdateSucceeds)
    /\ WF_vars(TimerFires)

\* What the server stores for the bound scenario is the serialization of the
\* selection in memory
StoredIsCurrent ==
    server[smCurrentScenarioId].data =
        SerializeSelections(treeData, activeCapabilities, activeControls)

\* C33: with the scenario bound throughout and every update request
\* succeeding, once the mutations have stopped the server's copy of the scenario
\* eventually equals serializeSelections() of the final selection, and stays so,
\* also when update requests overlap.
C33_AutoSaveEventuallyConsistent ==
    <>[](autoSaveTimer # "null" => StoredIsCurrent)

\* ---- switching the binding inside the debounce window ------------------------------
\* The user has the default scenario 1 and a second scenario, created earlier and
\* never saved to
InitSwitch ==
    BoundSession([i \in ScenarioIds |->
                    IF i = 1 THEN LegacyScenario(TRUE) ELSE [NoScenario EXCEPT !.state = "live"]])

\* The scenario selector changes
Switch == \E id \in ScenarioIds \cup {NoId} : LoadScenario(id)

\* The requests of loadScenario settle
LoadSettles ==
    \E s \in Slots : \E ok \in BOOLEAN : LoadGetDone(s, ok) \/ LoadRecalcDone(s, ok)

NextSwitch ==
    \/ Mutation
    \/ MutationSettles
    \/ Switch
    \/ LoadSettles
    \/ UpdateSucceeds
    \/ TimerFires

\* Requests settle, update requests succeed and timers fire.
SpecSwitch ==
    /\ InitSwitch
    /\ [][NextSwitch]_vars
    /\ WF_vars(MutationSettles)
    /\ WF_vars(LoadSettles)
    /\ WF_vars(UpdateSucceeds)
    /\ WF_vars(TimerFires)

\* The serialized selections of the selection states
SelectionBodies ==
    {SerializeSelections("loaded", caps, ctrls) : caps \in SUBSET Caps, ctrls \in SUBSET Ctrls}

\* Scenario 1 is bound, a mutation has scheduled its auto-save and the selection
\* in memory serializes to body
EditPending(body) ==
    /\ smCurrentScenarioId = 1
    /\ autoSaveTimer = "pending"
    /\ SerializeSelections(treeData, activeCapabilities, activeControls) = body

\* The edit has reached scenario 1, or was replaced while scenario 1 was bound
EditStoredOrReplaced(body) ==
    \/ server[1].data = body
    \/ /\ smCurrentScenarioId = 1
       /\ SerializeSelections(treeData, activeCapabilities, activeControls) # body

\* C34: a mutation made while scenario 1 is bound is eventually stored in
\* scenario 1's server copy (requests succeed, timers fire), also when the user
\* loads scenario 2 or unbinds with loadScenario(null) before the debounce timer
\* of the mutation has fired.
C34_EditSurvivesSwitch ==
    \A body \in SelectionBodies : EditPending(body) ~> EditStoredOrReplaced(body)

\* ---- the auto-save timer across a delete -----------------------------------------
\* deleteScenario has completed with success and no mutation handler has
\* scheduled an auto-save or is running since: the save status is still the
\* 'none' that deleteScenario set, and nothing is bound.
DeleteCompleted ==
    /\ \E i \in ScenarioIds : server[i].state = "deleted"
    /\ ~Bound
    /\ saveStatus = "none"
    /\ \A s \in Slots : tasks[s].op \notin {"toggleCapability", "toggleControl",
                                           "activateAll", "clearAll", "delete"}

\* C35: an auto-save timer scheduled before a successful deleteScenario writes
\* nothing when it fires after the delete has completed: the draft slot stays
\* empty and no update request is sent.
C35_TimerAfterDeleteWritesNothing ==
    [][(DeleteCompleted /\ localStorage[draftUserId] = NoDraft /\ TimerFires) =>
          /\ localStorage'[draftUserId] = NoDraft
          /\ \A s \in Slots : tasks'[s].op # "save"]_vars

\* ---- save / load round trip -----------------------------------------------------
\* The scenario that task s is loading holds what an update from the selection
\* in memory stores
StoredFromMemory(s) ==
    /\ treeData = "loaded"
    /\ server[tasks[s].sid].data =
           SerializeSelections(treeData, activeCapabilities, activeControls)

\* C36: with the tree loaded, loading a scenario that holds serializeSelections()
\* of the selection in memory leaves activeCapabilities and activeControls as
\* they were before the save.
C36_SaveLoadRoundTrip ==
    [][\A s \in Slots : (LoadGetDone(s, TRUE) /\ StoredFromMemory(s)) =>
          /\ activeCapabilities' = activeCapabilities
          /\ activeControls' = activeControls]_vars

\* ---- operations that end with an error -------------------------------------------
\* createNewScenario, saveAsScenario or deleteScenario in slot s ends in this step
\* with an error status, no other handler being suspended
EndsWithError(s) ==
    /\ tasks[s].op \in {"createNew", "saveAs", "delete"}
    /\ tasks'[s] = Idle
    /\ statusType' = "error"
    /\ \A o \in Slots \ {s} : tasks[o] = Idle

\* The scenario the operation in slot s was about is stored and bound as before
\* the operation: a scenario to delete is still stored and bound, a scenario to
\* create is not stored
AsBefore(s) ==
    IF tasks[s].op = "delete"
    THEN server'[tasks[s].sid].state = "live" /\ smCurrentScenarioId' = tasks[s].sid
    ELSE tasks[s].sid # NoId => server'[tasks[s].sid].state # "live"

\* C37: when createNewScenario, saveAsScenario or deleteScenario reports an error,
\* whichever of its requests failed, the stored scenarios and the bound scenario
\* id are what they were before the operation.
C37_ErrorMeansNoEffect ==
    [][\A s \in Slots : EndsWithError(s) => AsBefore(s)]_vars

\* ---- reloading the page over a stored draft ------------------------------------------
\* The drafts a previous session can have left under the user's key
PreviousDrafts ==
    {DraftOf(caps, ctrls) : caps \in SUBSET Caps, ctrls \in SUBSET Ctrls}

\* A fresh page (constructors of DashboardScenarios and DraftManager) over the
\* local storage a previous session of the same user left; the user has no
\* default scenario.
InitReload ==
    /\ treeData = "unset"
    /\ treeGroup = FALSE
    /\ activeCapabilities = {}
    /\ activeControls = {}
    /\ userId = NoUser
    /\ scenarioManager = FALSE
    /\ smCurrentScenarioId = NoId
    /\ currentScenarioId = NoId
    /\ scenariosInitialized = FALSE
    /\ draftUserId = DefaultDraftUser
    /\ \E draft \in PreviousDrafts :
         localStorage = [k \in DraftKeys |-> IF k = AuthUser THEN draft ELSE NoDraft]
    /\ autoSaveTimer = "null"
    /\ staleTimers = 0
    /\ statusType = "none"
    /\ statusText = NoText
    /\ saveStatus = "none"
    /\ \E has \in BOOLEAN :
         server = [i \in ScenarioIds |->
                     IF i = 1 /\ has THEN LegacyScenario(FALSE) ELSE NoScenario]
    /\ previousMetrics = NoMetrics
    /\ metricSignals = NoSignals
    /\ tasks = [s \in Slots |-> Idle]
    /\ ops = 0

\* The requests of renderCapabilities and initializeScenarioManagement settle
StartupSettles ==
    \E s \in Slots : \E ok \in BOOLEAN :
        \/ RenderTreeDone(s, ok)
        \/ InitUserDone(s, ok)
        \/ InitListDone(s, ok)
        \/ \E restore \in BOOLEAN : InitRecalcDone(s, ok, restore)
        \/ RestoreRecalcDone(s, ok)

\* The tab is opened, and the page is hidden or unloaded at any moment
NextReload ==
    \/ RenderCapabilities
    \/ PageHidden
    \/ StartupSettles

SpecReload == InitReload /\ [][NextReload]_vars

\* Startup has not yet reached the restore prompt of initializeScenarioManagement
BeforeRestoreDecision ==
    /\ ~scenariosInitialized
    /\ \A s \in Slots : tasks[s].pc # "restoreRecalc"

\* C38: until startup reaches the restore decision, the draft a previous session
\* stored under the user's key keeps its id sets, whatever unload or
\* visibility-hidden events occur in between.
C38_DraftSurvivesReload ==
    [][BeforeRestoreDecision => localStorage'[AuthUser] = localStorage[AuthUser]]_vars

\* ---- the metric drill-down (showMetricDetails) -----------------------------------
\* The data-metric values of the metric cards, and one the handler does not know
MetricTypes == {"assigned-controls", "active-controls", "partially-covered",
                "exposed-risks", "unknown"}

\* showMetricDetails: the payload of its capability-analysis request, built from
\* activeCapabilities alone
ShowMetricDetailsReq(caps, ctrls) == [NoReq EXCEPT !.capability_ids = caps]

\* The count that goes with the list a metric type shows
ExpectedCount(metricType, analysis) ==
    IF metricType = "active-controls" THEN analysis.active_controls
    ELSE IF metricType = "partially-covered" THEN analysis.partially_covered_risks
    ELSE analysis.exposed_risks

detailsFrame == <<treeData, treeGroup, selVars, bindVars, scenariosInitialized, localStorage,
                  timerVars, saveStatus, server, metricVars>>

\* A worksheet with the tree drawn and nothing bound, in any selection state the
\* toggles reach, showing the counts of that state
InitDetails ==
    /\ treeData = "loaded"
    /\ treeGroup = TRUE
    /\ activeCapabilities \in SUBSET Caps
    /\ activeControls \in SUBSET ControlsOf(activeCapabilities)
    /\ userId = AuthUser
    /\ scenarioManager = TRUE
    /\ smCurrentScenarioId = NoId
    /\ currentScenarioId = NoId
    /\ scenariosInitialized = TRUE
    /\ draftUserId = AuthUser
    /\ localStorage = [k \in DraftKeys |-> NoDraft]
    /\ autoSaveTimer = "null"
    /\ staleTimers = 0
    /\ statusType = "none"
    /\ statusText = NoText
    /\ saveStatus = "none"
    /\ server = [i \in ScenarioIds |-> NoScenario]
    /\ previousMetrics = Remembered(Analysis(AnalysisReq(activeCapabilities, activeControls)))
    /\ metricSignals = NoSignals
    /\ tasks = [s \in Slots |-> Idle]
    /\ ops = 0

\* A click on a metric card: showMetricDetails up to its first await
ShowMetricDetails(metricType) ==
    /\ CanStart
    /\ ops' = ops + 1
    /\ tasks' = [tasks EXCEPT ![FreeSlot] =
          Task("showMetricDetails", "analysis", NoId, metricType, FALSE,
               ShowMetricDetailsReq(activeCapabilities, activeControls))]
    /\ UNCHANGED statusType
    /\ UNCHANGED detailsFrame
    /\ TextFollowsType

\* showMetricDetails after its capability-analysis request
DetailsAnalysisDone(s, ok) ==
    /\ tasks[s].op = "showMetricDetails" /\ tasks[s].pc = "analysis"
    /\ LET metricType == tasks[s].ret IN
       IF ~ok
       THEN /\ statusType' = "error"
            /\ tasks' = [tasks EXCEPT ![s] = Idle]
       ELSE IF metricType = "assigned-controls"
       THEN /\ tasks' = [tasks EXCEPT ![s].pc = "controls", ![s].req = NoReq]
            /\ UNCHANGED statusType
       ELSE /\ statusType' =
                 IF metricType = "unknown" THEN "warning"
                 ELSE IF ExpectedCount(metricType, Analysis(tasks[s].req)) <= 0 THEN "info"
                 ELSE statusType
            /\ tasks' = [tasks EXCEPT ![s] = Idle]
    /\ UNCHANGED ops
    /\ UNCHANGED detailsFrame
    /\ TextFollowsType

\* showMetricDetails('assigned-controls') after /api/controls and after
\* /api/controls/mapped
DetailsListDone(s, ok) ==
    /\ tasks[s].op = "showMetricDetails" /\ tasks[s].pc \in {"controls", "mapped"}
    /\ IF ~ok
       THEN /\ statusType' = "error"
            /\ tasks' = [tasks EXCEPT ![s] = Idle]
       ELSE /\ tasks' = [tasks EXCEPT ![s] =
                  IF tasks[s].pc = "controls" THEN [tasks[s] EXCEPT !.pc = "mapped"] ELSE Idle]
            /\ UNCHANGED statusType
    /\ UNCHANGED ops
    /\ UNCHANGED detailsFrame
    /\ TextFollowsType

NextDetails ==
    \/ \E metricType \in MetricTypes : ShowMetricDetails(metricType)
    \/ \E s \in Slots : \E ok \in BOOLEAN : DetailsAnalysisDone(s, ok)
    \/ \E s \in Slots : \E ok \in BOOLEAN : DetailsListDone(s, ok)

SpecDetails == InitDetails /\ [][NextDetails]_vars

\* C39: the capability-analysis request of showMetricDetails carries the same
\* capability_ids and the same control_ids, present or omitted, as the request
\* recalculateMetrics issues for the selection state.
C39_DrillDownPayload ==
    \A s \in Slots :
        (tasks[s].op = "showMetricDetails" /\ tasks[s].pc = "analysis") =>
            tasks[s].req = AnalysisReq(activeCapabilities, activeControls)


====
